---- MODULE Spec2Model ----
(***************************************************************************)
(* Verification model of the data-migration scripts of crud-app:           *)
(*   - scripts/import-to-supabase   (src/unnamed/part_003)                 *)
(*   - scripts/migrate-from-sqlserver (src/unnamed/part_002)               *)
(*   - scripts/test-supabase-connection.ts                                 *)
(* and of the destination schema they write to (src/unnamed/part_001).     *)
(*                                                                         *)
(* Encodings.  A string is a sequence of one-character strings, so that    *)
(* String.includes / split act on its characters.  JSON null (and the      *)
(* empty string, equally falsy) is the empty sequence.  A nullable number  *)
(* is an integer, NULL standing for JSON null.  A calendar date is         *)
(* <<year, month, day>>.  A JavaScript Date is <<utc, loc>>: the calendar  *)
(* date of its instant in UTC and in the process's time zone.              *)
(***************************************************************************)
EXTENDS Integers, Sequences, FiniteSets, TLC

VARIABLES
    tz,         \* process time zone: -1 west of UTC, 0 UTC, 1 east of UTC
    exportKind, \* which extractor wrote the export files: "csv" or "json"
    script,     \* which script this process runs
    srcData,    \* content of the source database, one sequence of rows per table
    db,         \* destination database: one set of rows per table
    destUp,     \* the destination database is reachable
    srcUp,      \* the source SQL Server is reachable
    pc,         \* position of the running script
    idx,        \* loop variable i of the current loader (0-based offset)
    inserted,   \* the current loader's `inserted`, per table
    failed,     \* importAppointments' `failed`
    errors,     \* importAppointments' `errors` (batch start IDs) / stats.errors
    failedAt,   \* inserts that failed, as <<table, offset of the batch or record>>
    loadsDone,  \* tables whose loader has returned in this run
    prismaOpen, \* the Prisma client holds a connection
    poolOpen,   \* the mssql pool is connected
    exitCode,   \* -1 while the process runs, else its exit code
    run,        \* number of the pipeline run in progress
    firstCounts,\* row counts of the destination at the end of run 1
    report,     \* what verifyImport printed
    dIn,        \* date-function harness: the input string / driver value
    dOut,       \* date-function harness: <<function, result>>
    xSource,    \* extractor: rows of each source table, in primary-key order
    xFault,     \* extractor: the table whose export meets a failure, and which
    xPc,        \* extractor: number of the table main exports next
    xExit,      \* extractor: -1 while the process runs, else its exit code
    artifacts,  \* extractor: the <table>.json file of each table
    xWarned,    \* extractor: tables for which the row-count warning was printed
    xAttempts,  \* extractor: how often each table's export was started
    cookie,     \* web: the browser holds the auth_token cookie
    backend,    \* web: which version of the employee routes is deployed
    employees,  \* web: the stored employees
    nextId,     \* web: the next value of the employees id sequence
    response,   \* web: the last request and its response
    emailUnique,\* web: the employees table has a unique index on email
    pending,    \* web: file-backed requests that have read the file and not yet written it
    answers     \* web: the answers of the file-backed requests, in the order given

etlVars == <<tz, exportKind, script, srcData, db, destUp, srcUp, pc, idx, inserted, failed,
             errors, failedAt, loadsDone, prismaOpen, poolOpen, exitCode, run, firstCounts,
             report, dIn, dOut>>

extractVars == <<xSource, xFault, xPc, xExit, artifacts, xWarned, xAttempts>>

webAux == <<emailUnique, pending, answers>>

webVars == <<cookie, backend, employees, nextId, response, webAux>>

vars == <<etlVars, extractVars, webVars>>

NULL == 0 - 1
NullStr == <<>>
NullDate == <<>>
InvalidDate == <<<<0, 0, 0>>, <<0, 0, 0>>>>

(***************************************************************************)
(* Strings                                                                 *)
(***************************************************************************)
DigitChars == <<"0", "1", "2", "3", "4", "5", "6", "7", "8", "9">>

IsDigit(c) == \E k \in 1..10 : DigitChars[k] = c

DigitVal(c) == (CHOOSE k \in 1..10 : DigitChars[k] = c) - 1

Pad2(n) == <<DigitChars[((n \div 10) % 10) + 1], DigitChars[(n % 10) + 1]>>

Pad4(n) == Pad2(n \div 100) \o Pad2(n % 100)

\* String.prototype.includes
Includes(s, sub) ==
    \E k \in 1..(Len(s) - Len(sub) + 1) : SubSeq(s, k, k + Len(sub) - 1) = sub

\* s.split('.')[0]
SplitDot0(s) ==
    IF \E k \in 1..Len(s) : s[k] = "."
    THEN LET first == CHOOSE k \in 1..Len(s) :
                          s[k] = "." /\ \A j \in 1..(k - 1) : s[j] # "."
         IN  SubSeq(s, 1, first - 1)
    ELSE s

RECURSIVE TrimLeft(_)
TrimLeft(s) == IF s # <<>> /\ Head(s) = " " THEN TrimLeft(Tail(s)) ELSE s

RECURSIVE TrimRight(_)
TrimRight(s) ==
    IF s # <<>> /\ s[Len(s)] = " " THEN TrimRight(SubSeq(s, 1, Len(s) - 1)) ELSE s

\* String.prototype.trim
Trim(s) == TrimRight(TrimLeft(s))

Sentinel_ISO == <<"0", "0", "0", "1", "-", "0", "1", "-", "0", "1">>
Sentinel_Sql == <<"J", "a", "n", " ", " ", "1", " ", "0", "0", "0", "1">>
Sentinel_Short == <<"1", "-", "0", "1", "-", "0", "1">>
Sentinel_ToString == <<"J", "a", "n", " ", "0", "1", " ", "0", "0", "0", "1">>
NULL_Literal == <<"N", "U", "L", "L">>

(***************************************************************************)
(* Calendar and JavaScript Date                                            *)
(***************************************************************************)
IsLeap(y) == (y % 4 = 0 /\ y % 100 # 0) \/ y % 400 = 0

DaysInMonth(y, m) ==
    IF m = 2 THEN (IF IsLeap(y) THEN 29 ELSE 28)
    ELSE IF m \in {4, 6, 9, 11} THEN 30 ELSE 31

IsCalendarDate(d) ==
    /\ d[2] \in 1..12
    /\ d[3] \in 1..DaysInMonth(d[1], d[2])

PrevDay(d) ==
    IF d[3] > 1 THEN <<d[1], d[2], d[3] - 1>>
    ELSE IF d[2] > 1 THEN <<d[1], d[2] - 1, DaysInMonth(d[1], d[2] - 1)>>
    ELSE <<d[1] - 1, 12, 31>>

\* The instant 00:00 UTC of calendar date d: west of UTC it is still the day before.
UtcMidnight(d) == <<d, IF tz < 0 THEN PrevDay(d) ELSE d>>

\* The instant 00:00 local time of calendar date d: east of UTC that instant is
\* still the day before in UTC.
LocalMidnight(d) == <<IF tz > 0 THEN PrevDay(d) ELSE d, d>>

Utc(date) == date[1]
Loc(date) == date[2]

\* "YYYY-MM-DD" at the front of s, as numbers
HasYMD(s) ==
    /\ Len(s) >= 10
    /\ \A k \in {1, 2, 3, 4, 6, 7, 9, 10} : IsDigit(s[k])
    /\ s[5] = "-" /\ s[8] = "-"

YMD(s) ==
    << DigitVal(s[1]) * 1000 + DigitVal(s[2]) * 100 + DigitVal(s[3]) * 10 + DigitVal(s[4]),
       DigitVal(s[6]) * 10 + DigitVal(s[7]),
       DigitVal(s[9]) * 10 + DigitVal(s[10]) >>

MidnightSuffix == <<"0", "0", ":", "0", "0", ":", "0", "0">>

\* new Date(string): a date-only ISO string is read as UTC, a date-time string
\* without zone ("YYYY-MM-DD HH:MM:SS", "YYYY-MM-DDTHH:MM:SS") as local time,
\* anything else gives an Invalid Date.  Times of day are 00:00:00 in this model.
NewDateFromString(s) ==
    IF HasYMD(s) /\ IsCalendarDate(YMD(s))
    THEN IF Len(s) = 10 THEN UtcMidnight(YMD(s))
         ELSE IF Len(s) = 19 /\ s[11] \in {" ", "T"} /\ SubSeq(s, 12, 19) = MidnightSuffix
              THEN LocalMidnight(YMD(s))
              ELSE InvalidDate
    ELSE InvalidDate

MonthAbbr ==
    << <<"J", "a", "n">>, <<"F", "e", "b">>, <<"M", "a", "r">>, <<"A", "p", "r">>,
       <<"M", "a", "y">>, <<"J", "u", "n">>, <<"J", "u", "l">>, <<"A", "u", "g">>,
       <<"S", "e", "p">>, <<"O", "c", "t">>, <<"N", "o", "v">>, <<"D", "e", "c">> >>

\* Date.prototype.toString(): "Www Mmm DD YYYY HH:MM:SS GMT+hhmm (zone)", the
\* process-local rendering.  The weekday and the time of day are left abstract
\* ("Day", "hh:mm:ss"); neither can hold one of the searched patterns.
DateToString(date) ==
    IF date = InvalidDate
    THEN <<"I", "n", "v", "a", "l", "i", "d", " ", "D", "a", "t", "e">>
    ELSE <<"D", "a", "y", " ">> \o MonthAbbr[Loc(date)[2]] \o <<" ">>
         \o Pad2(Loc(date)[3]) \o <<" ">> \o Pad4(Loc(date)[1])
         \o <<" ", "h", "h", ":", "m", "m", ":", "s", "s", " ", "G", "M", "T">>

NeverBefore1900(date) == FALSE

\* date.getFullYear() < 1900 (NaN < 1900 is false for an Invalid Date)
FullYearBefore1900(date) == date # InvalidDate /\ Loc(date)[1] < 1900

(***************************************************************************)
(* Source values as the scripts receive them                               *)
(***************************************************************************)
RenderDate(d) == Pad4(d[1]) \o <<"-">> \o Pad2(d[2]) \o <<"-">> \o Pad2(d[3])

CsvTimeSuffix ==
    <<" ", "0", "0", ":", "0", "0", ":", "0", "0", ".", "0", "0", "0", "0", "0", "0", "0">>

JsonTimeSuffix == <<"T", "0", "0", ":", "0", "0", ":", "0", "0">>

\* The text of a source date in an export file.  A `date` column is written
\* "YYYY-MM-DD" by both extractors; a `datetime2` column is written
\* "YYYY-MM-DD 00:00:00.0000000" by sqlcmd (CSV path) and "YYYY-MM-DDT00:00:00"
\* by FOR JSON PATH.  SQL NULL arrives as JSON null.
ExportString(col, d) ==
    IF d = NullDate THEN NullStr
    ELSE IF col = "date" THEN RenderDate(d)
    ELSE IF exportKind = "csv" THEN RenderDate(d) \o CsvTimeSuffix
    ELSE RenderDate(d) \o JsonTimeSuffix

\* The value the mssql driver hands to the migration script for a date or
\* datetime2 column (useUTC is left at its default): a Date at 00:00 UTC.
DriverDate(d) == IF d = NullDate THEN NullDate ELSE UtcMidnight(d)

\* What a DATE / TIMESTAMP column keeps of a Date written through Prisma: its
\* UTC calendar date.
StoredDate(date) == IF date = NullDate THEN NullDate ELSE Utc(date)

(***************************************************************************)
(* The date helpers of the two scripts                                     *)
(***************************************************************************)
isInvalidDate(dateStr) ==
    IF dateStr = NullStr THEN TRUE
    ELSE \/ Includes(dateStr, Sentinel_ISO)
         \/ Includes(dateStr, Sentinel_Sql)
         \/ Includes(dateStr, Sentinel_Short)

parseDate(dateStr) ==
    IF dateStr = NullStr \/ dateStr = NULL_Literal THEN NullDate
    ELSE IF isInvalidDate(dateStr) THEN NullDate
    ELSE LET cleaned == Trim(SplitDot0(dateStr))
             date    == NewDateFromString(cleaned)
         IN  IF FullYearBefore1900(date) THEN NullDate ELSE date

formatDate(date) ==
    IF date = NullDate THEN NullDate
    ELSE LET dateStr == DateToString(date)
         IN  IF Includes(dateStr, Sentinel_ISO) \/ Includes(dateStr, Sentinel_ToString)
             THEN NullDate
             ELSE date

formatDateTime(date) == IF date = NullDate THEN NullDate ELSE date

(***************************************************************************)
(* Harness for the date helpers: Init draws a source date, a column type,  *)
(* an extractor and a time zone; one action applies each helper.           *)
(***************************************************************************)
LastYear == 2022

Years == {1, 1753, 1899, 1900, 1901} \cup (2019..LastYear)

Days == {1, 2, 15, 28, 29, 30, 31}

SourceDates ==
    {d \in Years \X (1..12) \X Days : IsCalendarDate(d)}

TimeZones == {-1, 0, 1}

(***************************************************************************)
(* Destination schema (createTables) and the database operations           *)
(***************************************************************************)
Tables == {"appointmentType", "employee", "timePeriod", "client", "rate", "appointment"}

\* REFERENCES ... ON DELETE RESTRICT: <<column, parent table>>
ForeignKeys ==
    [ appointmentType |-> {},
      employee        |-> {},
      timePeriod      |-> {},
      client          |-> {<<"employeeId", "employee">>, <<"apptTypeId", "appointmentType">>},
      rate            |-> {<<"employeeId", "employee">>, <<"apptTypeId", "appointmentType">>},
      appointment     |-> {<<"clientId", "client">>, <<"employeeId", "employee">>,
                           <<"rateId", "rate">>, <<"apptTypeId", "appointmentType">>} ]

\* NOT NULL number columns
RequiredNumbers ==
    [ appointmentType |-> {},
      employee        |-> {},
      timePeriod      |-> {},
      client          |-> {"apptTypeId"},
      rate            |-> {},
      appointment     |-> {"clientId", "employeeId", "duration"} ]

\* date / timestamp columns, and those of them that are NOT NULL
DateColumns ==
    [ appointmentType |-> {},
      employee        |-> {"startDate"},
      timePeriod      |-> {"startDate", "endDate"},
      client          |-> {"nextAppt", "created", "updated"},
      rate            |-> {"startDate", "endDate"},
      appointment     |-> {"apptDate", "created", "updated"} ]

RequiredDates ==
    [ appointmentType |-> {},
      employee        |-> {},
      timePeriod      |-> {"startDate", "endDate"},
      client          |-> {},
      rate            |-> {"startDate"},
      appointment     |-> {"apptDate", "created", "updated"} ]

EmptyDb == [t \in Tables |-> {}]

Ids(t, d) == {r.id : r \in d[t]}

\* The data of a create() call carries Date objects; Prisma rejects an Invalid
\* Date, the database rejects a duplicate key, a NULL in a NOT NULL column and
\* a reference to a missing parent row.
CreateOk(t, data, d) ==
    /\ data.id # NULL
    /\ data.id \notin Ids(t, d)
    /\ \A c \in RequiredNumbers[t] : data[c] # NULL
    /\ \A c \in DateColumns[t] : data[c] # InvalidDate
    /\ \A c \in RequiredDates[t] : data[c] # NullDate
    /\ \A fk \in ForeignKeys[t] : data[fk[1]] = NULL \/ data[fk[1]] \in Ids(fk[2], d)

\* The row a create() stores: each Date is kept as its UTC calendar date.
StoredRow(t, data) ==
    [c \in DOMAIN data |-> IF c \in DateColumns[t] THEN StoredDate(data[c]) ELSE data[c]]

\* Sequential create() calls, stopping at the first one that fails.
RECURSIVE CreateEach(_, _, _)
CreateEach(t, datas, d) ==
    IF datas = <<>> THEN [ok |-> TRUE, db |-> d]
    ELSE IF CreateOk(t, Head(datas), d)
         THEN CreateEach(t, Tail(datas), [d EXCEPT ![t] = @ \cup {StoredRow(t, Head(datas))}])
         ELSE [ok |-> FALSE, db |-> d]

TransactionNoRollback(t, datas, d) == CreateEach(t, datas, d)

\* prisma.$transaction([...]): every create or none.
Transaction(t, datas, d) ==
    LET r == CreateEach(t, datas, d)
    IN  IF r.ok THEN r ELSE [ok |-> FALSE, db |-> d]

\* Some row still references a row of table t.
Referenced(t, d) ==
    \E c \in Tables : \E fk \in ForeignKeys[c] :
        /\ fk[2] = t
        /\ \E r \in d[c] : r[fk[1]] # NULL /\ r[fk[1]] \in Ids(t, d)

\* deleteMany(): one DELETE statement; ON DELETE RESTRICT makes it fail as a
\* whole while a row of t is referenced.
DeleteMany(t, d) ==
    IF Referenced(t, d) THEN [ok |-> FALSE, db |-> d]
    ELSE [ok |-> TRUE, db |-> [d EXCEPT ![t] = {}]]

Counts(d) == [t \in Tables |-> Cardinality(d[t])]

(***************************************************************************)
(* The import script (part_003): record transformation                     *)
(***************************************************************************)
\* A JSON value of a field whose type matters: <<"null">>, <<"num", n>>,
\* <<"bool", b>> or <<"str", characters>>.
JNull == <<"null">>
JNum(n) == <<"num", n>>
JBool(b) == <<"bool", b>>
JStr(s) == <<"str", s>>
\* a property the object does not have (undefined)
JAbsent == <<"undefined">>

\* JavaScript truthiness: null, undefined, 0, false and '' are falsy.
Truthy(v) ==
    CASE v[1] = "null" -> FALSE
      [] v[1] = "undefined" -> FALSE
      [] v[1] = "num"  -> v[2] # 0
      [] v[1] = "bool" -> v[2]
      [] v[1] = "str"  -> v[2] # <<>>

\* v === 1 || v === true
IsOneOrTrue(v) == (v[1] = "num" /\ v[2] = 1) \/ (v[1] = "bool" /\ v[2])

\* Destination booleans are "true", "false" or "null".
\* v === 1 || v === true
BoolStrict(v) == IF IsOneOrTrue(v) THEN "true" ELSE "false"

\* v === 1 || v === true || null
BoolOrNull(v) == IF IsOneOrTrue(v) THEN "true" ELSE "null"

RECURSIVE DigitsValue(_)
DigitsValue(s) ==
    IF s = <<>> THEN 0 ELSE DigitsValue(SubSeq(s, 1, Len(s) - 1)) * 10 + DigitVal(s[Len(s)])

\* BigInt(v) returns: a number converts as it is (the model holds integers
\* only), a string when its trimmed text is empty or all decimal digits; any
\* other text makes BigInt throw a SyntaxError.
BigIntOk(v) ==
    CASE v[1] = "num" -> TRUE
      [] v[1] = "str" -> \A k \in 1..Len(Trim(v[2])) : IsDigit(Trim(v[2])[k])
      [] OTHER -> FALSE

BigIntValue(v) == IF v[1] = "num" THEN v[2] ELSE DigitsValue(Trim(v[2]))

\* JavaScript `x || null` on a number: 0 and null both give null.
OrNull(x) == IF x = NULL \/ x = 0 THEN NULL ELSE x

\* Size of one batch.  The script uses 1000; the model scales it down.
BATCH_SIZE == 2

\* Variants of the definitions below, used to test that the properties stated at
\* the end of the module depend on them.
ImportOrderClientFirst ==
    <<"appointmentType", "client", "employee", "timePeriod", "rate", "appointment">>

ClearOrderParentsFirst ==
    <<"appointmentType", "employee", "timePeriod", "client", "rate", "appointment">>

ClearOrderSkipsTypes ==
    <<"appointment", "rate", "client", "timePeriod", "employee", "employee">>

noMissingRecords == <<>>

ImportOrder == <<"appointmentType", "employee", "timePeriod", "client", "rate", "appointment">>

ClearOrder == <<"appointment", "rate", "client", "timePeriod", "employee", "appointmentType">>

Batched == {"timePeriod", "client", "rate", "appointment"}

\* The two rows importAppointmentTypes appends to the exported ones.
missingRecords == <<[ID |-> 11, TypeIdForRate |-> 11], [ID |-> 41, TypeIdForRate |-> 41]>>

\* JSON.parse(fs.readFileSync(<table>.json)), plus the appended rows
ImportRecords(t) ==
    IF t = "appointmentType" THEN srcData[t] \o missingRecords ELSE srcData[t]

\* The callback of batch.map throws before any create is issued.
ImportThrows(t, record) ==
    CASE t = "timePeriod" ->
           \/ ExportString("datetime2", record.StartDate) = NullStr
           \/ ExportString("datetime2", record.EndDate) = NullStr
      [] t = "rate" ->
           \/ ExportString("date", record.Start_Date) = NullStr
           \/ Truthy(record.GustoID) /\ ~BigIntOk(record.GustoID)
      [] t = "appointment" ->
           \/ record.Duration = NULL
           \/ parseDate(ExportString("datetime2", record.Appt_Date)) = NullDate
           \/ parseDate(ExportString("datetime2", record.Created)) = NullDate
           \/ parseDate(ExportString("datetime2", record.Updated)) = NullDate
      [] OTHER -> FALSE

\* The `data` object handed to prisma.<table>.create
ImportData(t, record) ==
    CASE t = "appointmentType" ->
           [id |-> record.ID, typeIdForRate |-> OrNull(record.TypeIdForRate)]
      [] t = "employee" ->
           [id        |-> record.ID,
            active    |-> IF record.Active = 1 THEN 1 ELSE 0,
            startDate |-> parseDate(ExportString("date", record.Start_Date))]
      [] t = "timePeriod" ->
           [id        |-> record.ID,
            startDate |-> NewDateFromString(SplitDot0(ExportString("datetime2", record.StartDate))),
            endDate   |-> NewDateFromString(SplitDot0(ExportString("datetime2", record.EndDate)))]
      [] t = "client" ->
           [id         |-> record.ID,
            employeeId |-> OrNull(record.EmployeeID),
            txPlan     |-> BoolStrict(record.TxPlan),
            nextAppt   |-> parseDate(ExportString("date", record.Next_Appt)),
            created    |-> parseDate(ExportString("datetime2", record.Created)),
            updated    |-> parseDate(ExportString("datetime2", record.Updated)),
            active     |-> BoolOrNull(record.Active),
            apptTypeId |-> record.Appt_TypeID]
      [] t = "rate" ->
           [id         |-> record.ID,
            employeeId |-> OrNull(record.EmployeeID),
            rate       |-> OrNull(record.Rate),
            startDate  |-> NewDateFromString(SplitDot0(ExportString("date", record.Start_Date))),
            endDate    |-> parseDate(ExportString("date", record.End_Date)),
            apptTypeId |-> OrNull(record.Appt_TypeID),
            gustoId    |-> IF Truthy(record.GustoID) THEN BigIntValue(record.GustoID) ELSE NULL]
      [] t = "appointment" ->
           [id         |-> record.ID,
            clientId   |-> record.ClientID,
            employeeId |-> record.EmployeeID,
            rateId     |-> OrNull(record.RateID),
            apptSpId   |-> IF Truthy(record.ApptSP_ID) /\ BigIntOk(record.ApptSP_ID)
                           THEN BigIntValue(record.ApptSP_ID) ELSE NULL,
            apptTypeId |-> OrNull(record.Appt_TypeID),
            apptDate   |-> parseDate(ExportString("datetime2", record.Appt_Date)),
            created    |-> parseDate(ExportString("datetime2", record.Created)),
            updated    |-> parseDate(ExportString("datetime2", record.Updated)),
            units      |-> OrNull(record.Units),
            clinicianAmount   |-> OrNull(record.Clinician_Amount),
            clientCharge      |-> OrNull(record.Client_Charge),
            vacationHours     |-> OrNull(record.Vacation_Hours),
            bonus             |-> OrNull(record.Bonus),
            correctionPayment |-> OrNull(record.Correction_Payment),
            reimbursement     |-> OrNull(record.Reimbursement),
            duration   |-> record.Duration,
            hasProgressNote |-> BoolStrict(record.HasProgressNote),
            flagged    |-> BoolOrNull(record.Flagged)]

\* records.slice(i, i + BATCH_SIZE)
Slice(records, i) ==
    SubSeq(records, i + 1, IF i + BATCH_SIZE < Len(records) THEN i + BATCH_SIZE ELSE Len(records))

ImportDatas(t, batch) == [k \in 1..Len(batch) |-> ImportData(t, batch[k])]

\* await prisma.$transaction(batch.map(...)): a throwing callback aborts the
\* map before the transaction is submitted.
ImportBatchResult(t, batch, d) ==
    IF \E k \in 1..Len(batch) : ImportThrows(t, batch[k])
    THEN [ok |-> FALSE, db |-> d]
    ELSE Transaction(t, ImportDatas(t, batch), d)

(***************************************************************************)
(* The direct migration script (part_002): record transformation           *)
(***************************************************************************)
MigrateData(t, row) ==
    CASE t = "appointmentType" -> [id |-> row.ID, typeIdForRate |-> row.TypeIdForRate]
      [] t = "employee" ->
           [id        |-> row.ID,
            active    |-> row.Active,
            startDate |-> formatDate(DriverDate(row.Start_Date))]
      [] t = "timePeriod" ->
           [id        |-> row.ID,
            startDate |-> formatDateTime(DriverDate(row.StartDate)),
            endDate   |-> formatDateTime(DriverDate(row.EndDate))]
      [] t = "client" ->
           [id         |-> row.ID,
            employeeId |-> row.EmployeeID,
            nextAppt   |-> formatDate(DriverDate(row.Next_Appt)),
            created    |-> formatDateTime(DriverDate(row.Created)),
            updated    |-> formatDateTime(DriverDate(row.Updated)),
            apptTypeId |-> row.Appt_TypeID]
      [] t = "rate" ->
           [id         |-> row.ID,
            employeeId |-> row.EmployeeID,
            rate       |-> row.Rate,
            startDate  |-> formatDate(DriverDate(row.Start_Date)),
            endDate    |-> formatDate(DriverDate(row.End_Date)),
            apptTypeId |-> row.Appt_TypeID]
      [] t = "appointment" ->
           [id         |-> row.ID,
            clientId   |-> row.ClientID,
            employeeId |-> row.EmployeeID,
            rateId     |-> row.RateID,
            apptTypeId |-> row.Appt_TypeID,
            apptDate   |-> formatDateTime(DriverDate(row.Appt_Date)),
            created    |-> formatDateTime(DriverDate(row.Created)),
            updated    |-> formatDateTime(DriverDate(row.Updated)),
            units      |-> row.Units,
            clinicianAmount   |-> row.Clinician_Amount,
            clientCharge      |-> row.Client_Charge,
            vacationHours     |-> row.Vacation_Hours,
            bonus             |-> row.Bonus,
            correctionPayment |-> row.Correction_Payment,
            reimbursement     |-> row.Reimbursement,
            duration   |-> row.Duration]

MigrateDatas(t, rows) == [k \in 1..Len(rows) |-> MigrateData(t, rows[k])]

\* migrateAppointments: each create in its own try/catch; a failing row is
\* skipped and its error pushed to stats.errors.
RECURSIVE CreateSkipping(_, _, _, _)
CreateSkipping(t, datas, d, errs) ==
    IF datas = <<>> THEN [db |-> d, errors |-> errs]
    ELSE IF CreateOk(t, Head(datas), d)
         THEN CreateSkipping(t, Tail(datas),
                             [d EXCEPT ![t] = @ \cup {StoredRow(t, Head(datas))}], errs)
         ELSE CreateSkipping(t, Tail(datas), d, Append(errs, Head(datas).id))

(***************************************************************************)
(* Bounded inputs: source tables and prior destination content             *)
(***************************************************************************)
SentinelDate == <<1, 1, 1>>
D2020 == <<2020, 5, 11>>
DJan1 == <<2021, 1, 1>>

TypeRows3  == <<[ID |-> 1, TypeIdForRate |-> 1], [ID |-> 2, TypeIdForRate |-> 0],
               [ID |-> 3, TypeIdForRate |-> NULL]>>
TypeRows11 == <<[ID |-> 1, TypeIdForRate |-> 1], [ID |-> 2, TypeIdForRate |-> 2],
               [ID |-> 11, TypeIdForRate |-> 11]>>
TypeFiles  == {<<>>, TypeRows3, TypeRows11}

EmployeeRows2 ==
    << [ID |-> 1, Active |-> 1, Start_Date |-> D2020],
       [ID |-> 2, Active |-> 0, Start_Date |-> NullDate] >>
EmployeeFiles == {<<>>, EmployeeRows2}

TimePeriodRows3 ==
    << [ID |-> 1, StartDate |-> D2020, EndDate |-> D2020],
       [ID |-> 2, StartDate |-> SentinelDate, EndDate |-> D2020],
       [ID |-> 3, StartDate |-> DJan1, EndDate |-> DJan1] >>
TimePeriodRowsBad ==
    << [ID |-> 1, StartDate |-> NullDate, EndDate |-> D2020],
       [ID |-> 2, StartDate |-> D2020, EndDate |-> D2020],
       [ID |-> 3, StartDate |-> D2020, EndDate |-> D2020] >>
TimePeriodFiles == {<<>>, TimePeriodRows3, TimePeriodRowsBad}

Text12 == <<"1", "2">>
TextX1 == <<"x", "1">>

ClientRows1 ==
    << [ID |-> 1, EmployeeID |-> 1, Appt_TypeID |-> 1, Next_Appt |-> SentinelDate,
        Created |-> D2020, Updated |-> D2020, TxPlan |-> JNum(1), Active |-> JBool(TRUE)] >>
ClientRows3 ==
    << [ID |-> 1, EmployeeID |-> 1, Appt_TypeID |-> 2, Next_Appt |-> <<1899, 12, 31>>,
        Created |-> SentinelDate, Updated |-> NullDate, TxPlan |-> JNum(0), Active |-> JNum(0)],
       [ID |-> 2, EmployeeID |-> NULL, Appt_TypeID |-> 11, Next_Appt |-> SentinelDate,
        Created |-> D2020, Updated |-> D2020, TxPlan |-> JBool(TRUE), Active |-> JBool(FALSE)],
       [ID |-> 3, EmployeeID |-> 2, Appt_TypeID |-> 1, Next_Appt |-> DJan1,
        Created |-> D2020, Updated |-> D2020, TxPlan |-> JNull, Active |-> JNum(1)] >>
ClientRowsBad ==
    << [ID |-> 1, EmployeeID |-> NULL, Appt_TypeID |-> 1, Next_Appt |-> NullDate,
        Created |-> D2020, Updated |-> D2020, TxPlan |-> JBool(FALSE), Active |-> JNull],
       [ID |-> 2, EmployeeID |-> 0, Appt_TypeID |-> 11, Next_Appt |-> D2020,
        Created |-> D2020, Updated |-> D2020, TxPlan |-> JNum(1), Active |-> JNum(1)],
       [ID |-> 3, EmployeeID |-> NULL, Appt_TypeID |-> 7, Next_Appt |-> SentinelDate,
        Created |-> D2020, Updated |-> D2020, TxPlan |-> JNum(1), Active |-> JNum(1)],
       [ID |-> 4, EmployeeID |-> NULL, Appt_TypeID |-> 1, Next_Appt |-> SentinelDate,
        Created |-> D2020, Updated |-> D2020, TxPlan |-> JNum(1), Active |-> JNum(1)],
       [ID |-> 5, EmployeeID |-> NULL, Appt_TypeID |-> 1, Next_Appt |-> D2020,
        Created |-> D2020, Updated |-> D2020, TxPlan |-> JNum(1), Active |-> JNum(1)] >>
ClientFiles == {ClientRows1, ClientRows3, ClientRowsBad}

RateRows3 ==
    << [ID |-> 1, EmployeeID |-> NULL, Appt_TypeID |-> NULL, Start_Date |-> <<1899, 12, 31>>,
        GustoID |-> JNull, Rate |-> 0, End_Date |-> SentinelDate],
       [ID |-> 2, EmployeeID |-> 1, Appt_TypeID |-> 1, Start_Date |-> D2020,
        GustoID |-> JNum(5), Rate |-> 50, End_Date |-> NullDate],
       [ID |-> 3, EmployeeID |-> 2, Appt_TypeID |-> 11, Start_Date |-> DJan1,
        GustoID |-> JStr(Text12), Rate |-> NULL, End_Date |-> D2020] >>
RateRowsBadGusto ==
    << [ID |-> 1, EmployeeID |-> NULL, Appt_TypeID |-> NULL, Start_Date |-> D2020,
        GustoID |-> JNum(0), Rate |-> 50, End_Date |-> D2020],
       [ID |-> 2, EmployeeID |-> NULL, Appt_TypeID |-> NULL, Start_Date |-> D2020,
        GustoID |-> JStr(TextX1), Rate |-> 50, End_Date |-> D2020],
       [ID |-> 3, EmployeeID |-> NULL, Appt_TypeID |-> NULL, Start_Date |-> D2020,
        GustoID |-> JNull, Rate |-> 50, End_Date |-> D2020] >>
RateFiles == {<<>>, RateRows3, RateRowsBadGusto}

AppointmentRows(badId) ==
    [k \in 1..5 |->
        [ID |-> k, ClientID |-> 1, EmployeeID |-> 1,
         RateID |-> IF k = 2 THEN 1 ELSE NULL,
         Appt_TypeID |-> IF k = 1 THEN 1 ELSE NULL,
         Appt_Date |-> D2020, Created |-> D2020, Updated |-> D2020,
         Units |-> IF k = 1 THEN 0 ELSE IF k = 2 THEN NULL ELSE 1,
         Clinician_Amount |-> IF k = 1 THEN 0 ELSE 40,
         Client_Charge |-> IF k = 1 THEN 0 ELSE 90,
         Vacation_Hours |-> IF k = 1 THEN 0 ELSE NULL,
         Bonus |-> IF k = 1 THEN 0 ELSE NULL,
         Correction_Payment |-> IF k = 1 THEN 0 ELSE NULL,
         Reimbursement |-> IF k = 1 THEN 0 ELSE 5,
         Duration |-> IF k = badId THEN NULL ELSE IF k = 5 THEN 0 ELSE 60,
         ApptSP_ID |-> CASE k = 1 -> JNum(7) [] k = 2 -> JStr(Text12)
                         [] k = 5 -> JStr(TextX1) [] OTHER -> JNull,
         HasProgressNote |-> CASE k = 1 -> JNum(1) [] k = 2 -> JNum(0)
                               [] k = 5 -> JBool(FALSE) [] OTHER -> JBool(TRUE),
         Flagged |-> CASE k = 1 -> JBool(TRUE) [] k = 2 -> JBool(FALSE)
                       [] k = 5 -> JNum(0) [] OTHER -> JNull]]
\* records 1 and 4 lack a usable Created / Updated date, record 5 has Duration 0
AppointmentRowsBadDates ==
    [AppointmentRows(0) EXCEPT ![1].Created = SentinelDate, ![4].Updated = NullDate]
AppointmentFiles == {<<>>, AppointmentRows(0), AppointmentRows(3), AppointmentRowsBadDates}

SourceChoices ==
    [ appointmentType : TypeFiles, employee : EmployeeFiles, timePeriod : TimePeriodFiles,
      client : ClientFiles, rate : RateFiles, appointment : AppointmentFiles ]

\* Content left in the destination by earlier use, consistent with its constraints.
LeftoverDb ==
    [ appointmentType |-> {[id |-> 1, typeIdForRate |-> 1], [id |-> 9, typeIdForRate |-> 9]},
      employee        |-> {[id |-> 1, active |-> 1, startDate |-> D2020]},
      timePeriod      |-> {[id |-> 8, startDate |-> D2020, endDate |-> D2020]},
      client          |-> {[id |-> 8, employeeId |-> 1, txPlan |-> "false", nextAppt |-> NullDate,
                            created |-> D2020, updated |-> D2020,
                            active |-> "true", apptTypeId |-> 9]},
      rate            |-> {[id |-> 8, employeeId |-> 1, startDate |-> D2020, apptTypeId |-> 9,
                            gustoId |-> NULL, rate |-> 50, endDate |-> NullDate]},
      appointment     |-> {[id |-> 8, clientId |-> 8, employeeId |-> 1, rateId |-> 8,
                            apptSpId |-> NULL, apptTypeId |-> NULL, apptDate |-> D2020,
                            created |-> D2020, updated |-> D2020, units |-> 1,
                            clinicianAmount |-> 40, clientCharge |-> 90,
                            vacationHours |-> NULL, bonus |-> NULL,
                            correctionPayment |-> NULL, reimbursement |-> NULL,
                            duration |-> 30, hasProgressNote |-> "false",
                            flagged |-> "null"]} ]

InitialDbs == {EmptyDb, LeftoverDb}

(***************************************************************************)
(* Initial states                                                          *)
(***************************************************************************)
MaxRuns == 2

DefaultSource ==
    [ appointmentType |-> TypeRows3, employee |-> EmployeeRows2,
      timePeriod |-> TimePeriodRows3, client |-> ClientRows1,
      rate |-> RateRows3, appointment |-> AppointmentRows(0) ]

NoCounts == [t \in Tables |-> 0]
NoReport == <<>>

StartPc(s) ==
    CASE s = "import"         -> <<"clear", 1>>
      [] s = "migrate"        -> <<"connectSql", 0>>
      [] s = "testConnection" -> <<"query", 1>>
      [] OTHER                -> <<"apply", 0>>

ProcessStart ==
    /\ pc = StartPc(script)
    /\ idx = 0
    /\ inserted = NoCounts
    /\ failed = 0
    /\ errors = <<>>
    /\ failedAt = {}
    /\ loadsDone = {}
    /\ prismaOpen = FALSE
    /\ poolOpen = FALSE
    /\ exitCode = -1
    /\ run = 1
    /\ firstCounts = NoCounts
    /\ report = NoReport

\* the extractor has not been started
ExtractIdle ==
    /\ xSource = <<>>
    /\ xFault = <<>>
    /\ xPc = <<"idle", 0>>
    /\ xExit = -1
    /\ artifacts = <<>>
    /\ xWarned = {}
    /\ xAttempts = <<>>

\* the web application is not serving
WebIdle ==
    /\ cookie = FALSE
    /\ backend = "none"
    /\ employees = <<>>
    /\ nextId = 1
    /\ response = <<>>
    /\ emailUnique = FALSE
    /\ pending = {}
    /\ answers = <<>>

Init ==
    /\ script \in {"import", "migrate", "testConnection"}
    /\ tz \in TimeZones
    /\ exportKind \in {"csv", "json"}
    /\ srcData \in SourceChoices
    /\ db \in InitialDbs
    /\ destUp \in BOOLEAN
    /\ srcUp \in BOOLEAN
    /\ script # "import" => exportKind = "json"
    /\ script # "migrate" => srcUp
    /\ (~destUp \/ ~srcUp \/ script = "testConnection") =>
           srcData = DefaultSource /\ tz = 0 /\ exportKind = "json" /\ db = EmptyDb
    /\ ProcessStart
    /\ dIn = <<>>
    /\ dOut = <<>>
    /\ ExtractIdle
    /\ WebIdle

(***************************************************************************)
(* The import script (part_003): main and the loaders                      *)
(***************************************************************************)
DateBefore(a, b) ==
    \/ a[1] < b[1]
    \/ a[1] = b[1] /\ a[2] < b[2]
    \/ a[1] = b[1] /\ a[2] = b[2] /\ a[3] < b[3]

NextLoadSkipsLast(k) ==
    IF k < Len(ImportOrder) - 1 THEN <<"load", k + 1>> ELSE <<"verify", 0>>

NextLoad(k) == IF k < Len(ImportOrder) THEN <<"load", k + 1>> ELSE <<"verify", 0>>

\* await prisma.<table>.deleteMany(), one table after the other
ImportClear ==
    /\ script = "import" /\ pc[1] = "clear"
    /\ LET t == ClearOrder[pc[2]]
           r == DeleteMany(t, db)
       IN  IF ~destUp
           THEN /\ pc' = <<"catch", 0>>
                /\ UNCHANGED <<db, prismaOpen>>
           ELSE /\ prismaOpen' = TRUE
                /\ db' = r.db
                /\ pc' = IF ~r.ok THEN <<"catch", 0>>
                         ELSE IF pc[2] < Len(ClearOrder) THEN <<"clear", pc[2] + 1>>
                         ELSE <<"load", 1>>
    /\ UNCHANGED <<extractVars, webVars, tz, exportKind, script, srcData, destUp, srcUp, idx, inserted, failed,
                   errors, failedAt, loadsDone, poolOpen, exitCode, run, firstCounts, report, dIn, dOut>>

\* importAppointmentTypes / importEmployees: one awaited create per record
ImportCreate ==
    /\ script = "import" /\ pc[1] = "load"
    /\ LET t == ImportOrder[pc[2]]
           records == ImportRecords(t)
       IN  /\ t \notin Batched
           /\ idx < Len(records)
           /\ LET r == CreateEach(t, <<ImportData(t, records[idx + 1])>>, db)
              IN  IF r.ok
                  THEN /\ db' = r.db
                       /\ inserted' = [inserted EXCEPT ![t] = @ + 1]
                       /\ idx' = idx + 1
                       /\ pc' = pc
                       /\ UNCHANGED failedAt
                  ELSE /\ pc' = <<"catch", 0>>
                       /\ failedAt' = failedAt \cup {<<t, idx>>}
                       /\ UNCHANGED <<db, inserted, idx>>
    /\ UNCHANGED <<extractVars, webVars, tz, exportKind, script, srcData, destUp, srcUp, failed, errors, loadsDone,
                   prismaOpen, poolOpen, exitCode, run, firstCounts, report, dIn, dOut>>

\* importTimePeriods / importClients / importRates: one transaction per batch,
\* no try/catch around it
ImportBatch ==
    /\ script = "import" /\ pc[1] = "load"
    /\ LET t == ImportOrder[pc[2]]
           records == ImportRecords(t)
       IN  /\ t \in Batched \ {"appointment"}
           /\ idx < Len(records)
           /\ LET batch == Slice(records, idx)
                  r == ImportBatchResult(t, batch, db)
              IN  /\ db' = r.db
                  /\ IF r.ok
                     THEN /\ inserted' = [inserted EXCEPT ![t] = @ + Len(batch)]
                          /\ idx' = idx + BATCH_SIZE
                          /\ pc' = pc
                          /\ UNCHANGED failedAt
                     ELSE /\ pc' = <<"catch", 0>>
                          /\ failedAt' = failedAt \cup {<<t, idx>>}
                          /\ UNCHANGED <<inserted, idx>>
    /\ UNCHANGED <<extractVars, webVars, tz, exportKind, script, srcData, destUp, srcUp, failed, errors, loadsDone,
                   prismaOpen, poolOpen, exitCode, run, firstCounts, report, dIn, dOut>>

\* errors.push({ recordId: batchStart, error: `Batch failed (IDs ${batchStart}-${batchEnd}): ...` })
\* (every ID of the bounded inputs is a positive number, so `|| 'unknown'` is not taken)
BatchErrorStartOnly(batch) ==
    [recordId |-> batch[1].ID, batchStart |-> batch[1].ID, batchEnd |-> batch[1].ID]

BatchError(batch) ==
    [recordId |-> batch[1].ID, batchStart |-> batch[1].ID, batchEnd |-> batch[Len(batch)].ID]

\* importAppointments: the transaction of each batch sits in a try/catch
ImportAppointmentBatch ==
    /\ script = "import" /\ pc[1] = "load"
    /\ LET t == ImportOrder[pc[2]]
           records == ImportRecords(t)
       IN  /\ t = "appointment"
           /\ idx < Len(records)
           /\ LET batch == Slice(records, idx)
                  r == ImportBatchResult(t, batch, db)
              IN  /\ db' = r.db
                  /\ idx' = idx + BATCH_SIZE
                  /\ IF r.ok
                     THEN /\ inserted' = [inserted EXCEPT ![t] = @ + Len(batch)]
                          /\ UNCHANGED <<failed, errors, failedAt>>
                     ELSE /\ failed' = failed + Len(batch)
                          /\ errors' = Append(errors, BatchError(batch))
                          /\ failedAt' = failedAt \cup {<<t, idx>>}
                          /\ UNCHANGED inserted
    /\ UNCHANGED <<extractVars, webVars, tz, exportKind, script, srcData, destUp, srcUp, pc, loadsDone,
                   prismaOpen, poolOpen, exitCode, run, firstCounts, report, dIn, dOut>>

\* a loader's loop ends and the loader returns
ImportLoaderReturn ==
    /\ script = "import" /\ pc[1] = "load"
    /\ idx >= Len(ImportRecords(ImportOrder[pc[2]]))
    /\ pc' = NextLoad(pc[2])
    /\ idx' = 0
    /\ loadsDone' = loadsDone \cup {ImportOrder[pc[2]]}
    /\ UNCHANGED <<extractVars, webVars, tz, exportKind, script, srcData, db, destUp, srcUp, inserted, failed,
                   errors, failedAt, prismaOpen, poolOpen, exitCode, run, firstCounts,
                   report, dIn, dOut>>

\* verifyImport, then the "Import Complete!" report
ImportVerify ==
    /\ script = "import" /\ pc[1] = "verify"
    /\ LET invalidDatesCount ==
               Cardinality({c \in db["client"] :
                   c.nextAppt # NullDate /\ DateBefore(c.nextAppt, <<1900, 1, 1>>)})
       IN  report' = [counts |-> Counts(db), invalidDatesCount |-> invalidDatesCount,
                      warned |-> invalidDatesCount > 0]
    /\ pc' = <<"complete", 0>>
    /\ UNCHANGED <<extractVars, webVars, tz, exportKind, script, srcData, db, destUp, srcUp, idx, inserted, failed,
                   errors, failedAt, loadsDone, prismaOpen, poolOpen, exitCode, run, firstCounts,
                   dIn, dOut>>

\* finally { await prisma.$disconnect() } after the try block completed
ImportFinally ==
    /\ script = "import" /\ pc[1] = "complete"
    /\ prismaOpen' = FALSE
    /\ exitCode' = 0
    /\ pc' = <<"end", 0>>
    /\ UNCHANGED <<extractVars, webVars, tz, exportKind, script, srcData, db, destUp, srcUp, idx, inserted, failed,
                   errors, failedAt, loadsDone, poolOpen, run, firstCounts, report, dIn, dOut>>

\* catch { ...; process.exit(1) }: the process ends inside the catch block
ImportCatch ==
    /\ script = "import" /\ pc[1] = "catch"
    /\ exitCode' = 1
    /\ pc' = <<"end", 0>>
    /\ UNCHANGED <<extractVars, webVars, tz, exportKind, script, srcData, db, destUp, srcUp, idx, inserted, failed,
                   errors, failedAt, loadsDone, prismaOpen, poolOpen, run, firstCounts, report, dIn, dOut>>

\* the operator starts the script again on the same export files
ImportRunAgain ==
    /\ script = "import" /\ pc[1] = "end"
    /\ run < MaxRuns
    /\ run' = run + 1
    /\ firstCounts' = IF run = 1 THEN Counts(db) ELSE firstCounts
    /\ pc' = StartPc(script)
    /\ idx' = 0
    /\ inserted' = NoCounts
    /\ failed' = 0
    /\ errors' = <<>>
    /\ failedAt' = {}
    /\ loadsDone' = {}
    /\ prismaOpen' = FALSE
    /\ exitCode' = -1
    /\ report' = NoReport
    /\ UNCHANGED <<extractVars, webVars, tz, exportKind, script, srcData, db, destUp, srcUp, poolOpen, dIn, dOut>>

(***************************************************************************)
(* The direct migration script (part_002): migrate and its loaders         *)
(***************************************************************************)
MigrateConnectSql ==
    /\ script = "migrate" /\ pc[1] = "connectSql"
    /\ IF srcUp
       THEN poolOpen' = TRUE /\ pc' = <<"connectPrisma", 0>>
       ELSE poolOpen' = poolOpen /\ pc' = <<"catch", 0>>
    /\ UNCHANGED <<extractVars, webVars, tz, exportKind, script, srcData, db, destUp, srcUp, idx, inserted, failed,
                   errors, failedAt, loadsDone, prismaOpen, exitCode, run, firstCounts, report, dIn, dOut>>

MigrateConnectPrisma ==
    /\ script = "migrate" /\ pc[1] = "connectPrisma"
    /\ IF destUp
       THEN prismaOpen' = TRUE /\ pc' = <<"load", 1>>
       ELSE prismaOpen' = prismaOpen /\ pc' = <<"catch", 0>>
    /\ UNCHANGED <<extractVars, webVars, tz, exportKind, script, srcData, db, destUp, srcUp, idx, inserted, failed,
                   errors, failedAt, loadsDone, poolOpen, exitCode, run, firstCounts, report, dIn, dOut>>

\* migrateAppointmentTypes ... migrateRates: awaited creates, one per source
\* row; the first failure leaves the loader (and the try block of migrate)
MigrateTable ==
    /\ script = "migrate" /\ pc[1] = "load"
    /\ LET t == ImportOrder[pc[2]]
           r == CreateEach(t, MigrateDatas(t, srcData[t]), db)
       IN  /\ t # "appointment"
           /\ db' = r.db
           /\ inserted' = [inserted EXCEPT ![t] = Cardinality(r.db[t]) - Cardinality(db[t])]
           /\ pc' = IF r.ok THEN <<"load", pc[2] + 1>> ELSE <<"catch", 0>>
           /\ loadsDone' = IF r.ok THEN loadsDone \cup {t} ELSE loadsDone
           /\ failedAt' = IF r.ok THEN failedAt ELSE failedAt \cup {<<t, inserted'[t]>>}
    /\ UNCHANGED <<extractVars, webVars, tz, exportKind, script, srcData, destUp, srcUp, idx, failed, errors,
                   prismaOpen, poolOpen, exitCode, run, firstCounts, report,
                   dIn, dOut>>

MigrateAppointments ==
    /\ script = "migrate" /\ pc[1] = "load"
    /\ LET t == ImportOrder[pc[2]]
           r == CreateSkipping(t, MigrateDatas(t, srcData[t]), db, <<>>)
       IN  /\ t = "appointment"
           /\ db' = r.db
           /\ errors' = r.errors
           /\ inserted' = [inserted EXCEPT ![t] = Cardinality(r.db[t]) - Cardinality(db[t])]
           /\ pc' = <<"complete", 0>>
           /\ loadsDone' = loadsDone \cup {t}
    /\ UNCHANGED <<extractVars, webVars, tz, exportKind, script, srcData, destUp, srcUp, idx, failed,
                   failedAt, prismaOpen, poolOpen, exitCode, run, firstCounts, report,
                   dIn, dOut>>

\* catch { ...; throw error }: control goes on to the finally block
MigrateCatch ==
    /\ script = "migrate" /\ pc[1] = "catch"
    /\ pc' = <<"finally", 0>>
    /\ UNCHANGED <<extractVars, webVars, tz, exportKind, script, srcData, db, destUp, srcUp, idx, inserted, failed,
                   errors, failedAt, loadsDone, prismaOpen, poolOpen, exitCode, run, firstCounts,
                   report, dIn, dOut>>

\* finally { if (pool) await pool.close(); await prisma.$disconnect() }; the
\* rejection of migrate() is only logged, the process ends on its own
MigrateFinally ==
    /\ script = "migrate" /\ pc[1] \in {"complete", "finally"}
    /\ poolOpen' = FALSE
    /\ prismaOpen' = FALSE
    /\ exitCode' = 0
    /\ pc' = <<"end", 0>>
    /\ UNCHANGED <<extractVars, webVars, tz, exportKind, script, srcData, db, destUp, srcUp, idx, inserted, failed,
                   errors, failedAt, loadsDone, run, firstCounts, report, dIn, dOut>>

(***************************************************************************)
(* scripts/test-supabase-connection.ts                                     *)
(***************************************************************************)
TestQueries == 3

\* the three $queryRaw calls; the first one connects
TestQuery ==
    /\ script = "testConnection" /\ pc[1] = "query"
    /\ \E ok \in BOOLEAN :
         /\ (pc[2] = 1) => (ok = destUp)
         /\ IF ok
            THEN /\ prismaOpen' = TRUE
                 /\ pc' = IF pc[2] < TestQueries THEN <<"query", pc[2] + 1>>
                          ELSE <<"complete", 0>>
            ELSE /\ prismaOpen' = prismaOpen
                 /\ pc' = <<"catch", 0>>
    /\ UNCHANGED <<extractVars, webVars, tz, exportKind, script, srcData, db, destUp, srcUp, idx, inserted, failed,
                   errors, failedAt, loadsDone, poolOpen, exitCode, run, firstCounts, report, dIn, dOut>>

\* catch { ...; process.exit(1) }
TestCatch ==
    /\ script = "testConnection" /\ pc[1] = "catch"
    /\ exitCode' = 1
    /\ pc' = <<"end", 0>>
    /\ UNCHANGED <<extractVars, webVars, tz, exportKind, script, srcData, db, destUp, srcUp, idx, inserted, failed,
                   errors, failedAt, loadsDone, prismaOpen, poolOpen, run, firstCounts, report, dIn, dOut>>

\* finally { await prisma.$disconnect() } after the try block completed
TestFinally ==
    /\ script = "testConnection" /\ pc[1] = "complete"
    /\ prismaOpen' = FALSE
    /\ exitCode' = 0
    /\ pc' = <<"end", 0>>
    /\ UNCHANGED <<extractVars, webVars, tz, exportKind, script, srcData, db, destUp, srcUp, idx, inserted, failed,
                   errors, failedAt, loadsDone, poolOpen, run, firstCounts, report, dIn, dOut>>

(***************************************************************************)
(* Specification of the scripts                                            *)
(***************************************************************************)
Next ==
    \/ ImportClear
    \/ ImportCreate
    \/ ImportBatch
    \/ ImportAppointmentBatch
    \/ ImportLoaderReturn
    \/ ImportVerify
    \/ ImportFinally
    \/ ImportCatch
    \/ ImportRunAgain
    \/ MigrateConnectSql
    \/ MigrateConnectPrisma
    \/ MigrateTable
    \/ MigrateAppointments
    \/ MigrateCatch
    \/ MigrateFinally
    \/ TestQuery
    \/ TestCatch
    \/ TestFinally

Spec == Init /\ [][Next]_vars

(***************************************************************************)
(* Specification of the date helpers                                       *)
(***************************************************************************)
InitDates ==
    /\ script = "dates"
    /\ tz \in TimeZones
    /\ exportKind \in {"csv", "json"}
    /\ srcData = DefaultSource
    /\ db = EmptyDb
    /\ destUp = TRUE
    /\ srcUp = TRUE
    /\ ProcessStart
    /\ dIn \in [d : SourceDates, col : {"date", "datetime2"}]
    /\ dOut = <<>>
    /\ ExtractIdle
    /\ WebIdle

\* the import script's helper on the text the extractor wrote for the date
ApplyParseDate ==
    /\ script = "dates" /\ dOut = <<>>
    /\ dOut' = <<"parseDate", parseDate(ExportString(dIn.col, dIn.d))>>
    /\ UNCHANGED <<extractVars, webVars, tz, exportKind, script, srcData, db, destUp, srcUp, pc, idx, inserted,
                   failed, errors, failedAt, loadsDone, prismaOpen, poolOpen, exitCode, run,
                   firstCounts, report, dIn>>

\* the migration script's helper on the Date the driver returned for the date
ApplyFormatDate ==
    /\ script = "dates" /\ dOut = <<>>
    /\ dOut' = <<"formatDate", formatDate(DriverDate(dIn.d))>>
    /\ UNCHANGED <<extractVars, webVars, tz, exportKind, script, srcData, db, destUp, srcUp, pc, idx, inserted,
                   failed, errors, failedAt, loadsDone, prismaOpen, poolOpen, exitCode, run,
                   firstCounts, report, dIn>>

NextDates == ApplyParseDate \/ ApplyFormatDate

SpecDates == InitDates /\ [][NextDates]_vars

(***************************************************************************)
(* The extractors: scripts/export-sqlserver-data.ts (sqlcmd CSV output     *)
(* parsed by csvToJson) and scripts/export-sqlserver-data-json.ts          *)
(* (FOR JSON PATH).  A source row is projected on its ID and one text      *)
(* column; a file is the sequence of its lines; a record is the sequence   *)
(* of its values in column order.                                          *)
(***************************************************************************)
LowerChars == <<"a", "b", "c", "d", "e", "f", "g", "h", "i", "j", "k", "l", "m", "n", "o", "p", "q", "r", "s", "t", "u", "v", "w", "x", "y", "z">>
UpperChars == <<"A", "B", "C", "D", "E", "F", "G", "H", "I", "J", "K", "L", "M", "N", "O", "P", "Q", "R", "S", "T", "U", "V", "W", "X", "Y", "Z">>

\* String.prototype.toUpperCase
ToUpper(s) ==
    [k \in 1..Len(s) |->
        IF \E j \in 1..26 : LowerChars[j] = s[k]
        THEN UpperChars[CHOOSE j \in 1..26 : LowerChars[j] = s[k]]
        ELSE s[k]]

\* String.prototype.toLowerCase
ToLower(s) ==
    [k \in 1..Len(s) |->
        IF \E j \in 1..26 : UpperChars[j] = s[k]
        THEN LowerChars[CHOOSE j \in 1..26 : UpperChars[j] = s[k]]
        ELSE s[k]]

\* col.replace('_', ' '): the first underscore only
ReplaceUnderscore(s) ==
    IF \E k \in 1..Len(s) : s[k] = "_"
    THEN LET first == CHOOSE k \in 1..Len(s) :
                          s[k] = "_" /\ \A j \in 1..(k - 1) : s[j] # "_"
         IN  [s EXCEPT ![first] = " "]
    ELSE s

\* trimmed.split(',')
RECURSIVE SplitComma(_)
SplitComma(s) ==
    IF \E k \in 1..Len(s) : s[k] = ","
    THEN LET first == CHOOSE k \in 1..Len(s) :
                          s[k] = "," /\ \A j \in 1..(k - 1) : s[j] # ","
         IN  <<SubSeq(s, 1, first - 1)>> \o SplitComma(SubSeq(s, first + 1, Len(s)))
    ELSE <<s>>

\* trimmed.match(/^[-\s,]+$/)
IsSeparatorLine(s) == s # <<>> /\ \A k \in 1..Len(s) : s[k] \in {"-", " ", ","}

RowsAffected == <<"r", "o", "w", "s", " ", "a", "f", "f", "e", "c", "t", "e", "d">>
RowAffected == <<"r", "o", "w", " ", "a", "f", "f", "e", "c", "t", "e", "d">>
Lit_NULL == <<"N", "U", "L", "L">>
Lit_null == <<"n", "u", "l", "l">>

\* the decimal text of a number below 100, as sqlcmd prints an ID
NumChars(n) ==
    IF n < 10 THEN <<DigitChars[n + 1]>>
    ELSE <<DigitChars[(n \div 10) + 1], DigitChars[(n % 10) + 1]>>

\* !isNaN(Number(value)) for the values of the bounded inputs: all digits
IsNumeric(s) == s # <<>> /\ \A k \in 1..Len(s) : IsDigit(s[k])

\* Number(value) / parseInt(value) of a digit string
RECURSIVE NumberOf(_)
NumberOf(s) ==
    IF s = <<>> THEN 0 ELSE 10 * NumberOf(SubSeq(s, 1, Len(s) - 1)) + DigitVal(s[Len(s)])

\* main of either extractor: the tables in the order they are exported
ExportOrder == <<"appointmentType", "employee", "timePeriod", "client", "rate", "appointment">>

\* the column lists main passes to exportTable, projected on two columns
ExportColumns(t) ==
    CASE t = "appointmentType" -> <<<<"I", "D">>, <<"C", "o", "d", "e">>>>
      [] t = "employee"        -> <<<<"I", "D">>, <<"N", "a", "m", "e">>>>
      [] t = "timePeriod"      -> <<<<"I", "D">>, <<"P", "a", "y", "P", "e", "r", "i", "o", "d">>>>
      [] t = "client"          -> <<<<"I", "D">>, <<"C", "l", "i", "e", "n", "t", "_", "N", "a", "m", "e">>>>
      [] t = "rate"            -> <<<<"I", "D">>, <<"R", "a", "t", "e", "T", "y", "p", "e">>>>
      [] t = "appointment"     -> <<<<"I", "D">>, <<"C", "o", "m", "m", "e", "n", "t", "s">>>>

\* the expected row counts main passes, scaled to the bounded inputs
ExpectedRows(t) == IF t = "appointment" THEN 3 ELSE 2

\* the columns csvToJson reads '1' and '0' of as booleans
IsBooleanColumn(col) ==
    LET colLower == ToLower(col)
    IN  \/ Includes(colLower, <<"a", "c", "t", "i", "v", "e">>)
        \/ colLower \in {<<"t", "x", "_", "p", "l", "a", "n">>, <<"n", "p", "p">>, <<"c", "o", "n", "s", "e", "n", "t">>, <<"f", "l", "a", "g", "g", "e", "d">>, <<"h", "a", "s", "_", "p", "r", "o", "g", "r", "e", "s", "s", "_", "n", "o", "t", "e">>}

\* csvToJson, the conversion of one value
CsvValue(col, value) ==
    IF value = Lit_NULL \/ value = <<>> \/ value = Lit_null THEN JNull
    ELSE IF value = <<"1">> \/ value = <<"0">>
         THEN IF IsBooleanColumn(col) THEN JBool(value = <<"1">>)
              ELSE JNum(NumberOf(value))
    ELSE IF IsNumeric(value) THEN JNum(NumberOf(value))
    ELSE JStr(value)

\* csvToJson: does the line look like the column header
HeaderMatches(trimmed, columns) ==
    \E c \in 1..Len(columns) :
        Includes(ToUpper(trimmed), ReplaceUnderscore(ToUpper(columns[c])))

\* csvToJson, the loop over the lines from line k on
RECURSIVE CsvLoop(_, _, _, _, _)
CsvLoop(lines, k, dataStarted, records, columns) ==
    IF k > Len(lines) THEN records
    ELSE LET trimmed == Trim(lines[k])
             values  == [j \in 1..Len(SplitComma(trimmed)) |-> Trim(SplitComma(trimmed)[j])]
             isHeader == ~dataStarted /\ Includes(trimmed, <<",">>)
                             /\ HeaderMatches(trimmed, columns)
             started == dataStarted \/ (Includes(trimmed, <<",">>) /\ ~isHeader)
         IN  IF \/ trimmed = <<>>
                \/ IsSeparatorLine(trimmed)
                \/ Includes(trimmed, RowsAffected)
                \/ Includes(trimmed, RowAffected)
             THEN CsvLoop(lines, k + 1, dataStarted, records, columns)
             ELSE IF isHeader
             THEN CsvLoop(lines, k + 1, FALSE, records, columns)
             ELSE IF ~started \/ Len(values) # Len(columns)
             THEN CsvLoop(lines, k + 1, started, records, columns)
             ELSE CsvLoop(lines, k + 1, started,
                          Append(records,
                                 [c \in 1..Len(columns) |-> CsvValue(columns[c], values[c])]),
                          columns)

csvToJson(lines, columns) == CsvLoop(lines, 1, FALSE, <<>>, columns)

\* a field as sqlcmd prints it
SqlText(v) == IF v = JNull THEN Lit_NULL ELSE v[2]

\* the file sqlcmd -s "," -W writes for a query that succeeds: the header
\* line, the line of dashes, one line per row in ID order
SqlcmdCsv(t, rows) ==
    LET cols == ExportColumns(t)
    IN  << cols[1] \o <<",">> \o cols[2],
           [k \in 1..Len(cols[1]) |-> "-"] \o <<",">> \o [k \in 1..Len(cols[2]) |-> "-"] >>
        \o [k \in 1..Len(rows) |-> NumChars(rows[k].ID) \o <<",">> \o SqlText(rows[k].text)]

\* the file sqlcmd writes when the server rejects the query; without -b
\* sqlcmd still exits with status 0
SqlcmdError ==
    << <<"M", "s", "g", " ", "2", "0", "8", ",", " ", "L", "e", "v", "e", "l", " ", "1", "6", ",", " ", "S", "t", "a", "t", "e", " ", "1", ",", " ", "S", "e", "r", "v", "e", "r", " ", "M", "S", "S", "Q", "L", "L", "o", "c", "a", "l", "D", "B", ",", " ", "L", "i", "n", "e", " ", "1">>,
       <<"I", "n", "v", "a", "l", "i", "d", " ", "o", "b", "j", "e", "c", "t", " ", "n", "a", "m", "e", ".">> >>

\* the array FOR JSON PATH gives and JSON.parse reads back: one object per
\* row in ID order, a NULL column left out of its object
ForJsonRecords(rows) == [k \in 1..Len(rows) |-> <<JNum(rows[k].ID), rows[k].text>>]

NoArtifact == [kind |-> "absent", records |-> <<>>]
RawArtifact == [kind |-> "raw", records |-> <<>>]
JsonArtifact(records) == [kind |-> "json", records |-> records]

NoFault == [table |-> "none", kind |-> "none"]

FaultAt(t) == IF xFault.table = t THEN xFault.kind ELSE "none"

\* main: the step after the export of table number k
NextExport(k) == IF k < Len(ExportOrder) THEN <<"export", k + 1>> ELSE <<"complete", 0>>

\* exportTable of the CSV extractor, called by its main for table number xPc[2]
ExportTable ==
    /\ script = "exportCsv"
    /\ xPc[1] = "export"
    /\ LET t       == ExportOrder[xPc[2]]
           fault   == FaultAt(t)
           lines   == IF fault = "query" THEN SqlcmdError ELSE SqlcmdCsv(t, xSource[t])
           records == csvToJson(lines, ExportColumns(t))
       IN  /\ xAttempts' = [xAttempts EXCEPT ![t] = @ + 1]
           /\ IF fault \in {"connect", "write"}
              THEN /\ xPc' = <<"catch", 0>>
                   /\ UNCHANGED <<artifacts, xWarned>>
              ELSE /\ artifacts' = [artifacts EXCEPT ![t] = JsonArtifact(records)]
                   /\ xWarned' = IF Len(records) # ExpectedRows(t)
                                 THEN xWarned \cup {t} ELSE xWarned
                   /\ xPc' = NextExport(xPc[2])
    /\ UNCHANGED <<etlVars, webVars, xSource, xFault, xExit>>

\* exportTableToJson of the JSON extractor; sqlcmd writes its output to the
\* artifact's own path, which the function then reads, parses and rewrites
ExportTableToJson ==
    /\ script = "exportJson"
    /\ xPc[1] = "export"
    /\ LET t     == ExportOrder[xPc[2]]
           fault == FaultAt(t)
           json  == ForJsonRecords(xSource[t])
       IN  /\ xAttempts' = [xAttempts EXCEPT ![t] = @ + 1]
           /\ IF fault = "connect"
              THEN /\ xPc' = <<"catch", 0>>
                   /\ \E a \in {artifacts[t], RawArtifact} :
                          artifacts' = [artifacts EXCEPT ![t] = a]
                   /\ UNCHANGED xWarned
              ELSE IF fault = "query" \/ xSource[t] = <<>>
              THEN /\ xPc' = <<"catch", 0>>
                   /\ artifacts' = [artifacts EXCEPT ![t] = RawArtifact]
                   /\ UNCHANGED xWarned
              ELSE /\ xWarned' = IF Len(json) # ExpectedRows(t)
                                 THEN xWarned \cup {t} ELSE xWarned
                   /\ IF fault = "write"
                      THEN /\ xPc' = <<"catch", 0>>
                           /\ artifacts' = [artifacts EXCEPT ![t] = RawArtifact]
                      ELSE /\ xPc' = NextExport(xPc[2])
                           /\ artifacts' = [artifacts EXCEPT ![t] = JsonArtifact(json)]
    /\ UNCHANGED <<etlVars, webVars, xSource, xFault, xExit>>

\* main of either extractor: all six exports returned
ExportComplete ==
    /\ script \in {"exportCsv", "exportJson"}
    /\ xPc[1] = "complete"
    /\ xPc' = <<"end", 0>>
    /\ xExit' = 0
    /\ UNCHANGED <<etlVars, webVars, xSource, xFault, artifacts, xWarned, xAttempts>>

\* main of either extractor: the catch block
ExportCatch ==
    /\ script \in {"exportCsv", "exportJson"}
    /\ xPc[1] = "catch"
    /\ xPc' = <<"end", 0>>
    /\ xExit' = 1
    /\ UNCHANGED <<etlVars, webVars, xSource, xFault, artifacts, xWarned, xAttempts>>

\* bounded source tables
XRow(id, text) == [ID |-> id, text |-> text]

XRows2 == <<XRow(1, JStr(<<"a", "b">>)), XRow(2, JStr(<<"c", "d">>))>>
XRows3 == <<XRow(1, JStr(<<"a", "b">>)), XRow(2, JStr(<<"c", "d">>)), XRow(11, JStr(<<"e", "f">>))>>
XRowsComma == <<XRow(1, JStr(<<"a", "b">>)), XRow(2, JStr(<<"a", ",", "b">>))>>
XRowsHeaderLike == <<XRow(1, JStr(<<"p", "a", "i", "d">>)), XRow(2, JStr(<<"a", "b">>))>>
XRowsNull == <<XRow(1, JNull), XRow(2, JStr(<<"1", "2">>))>>

XSources(t) ==
    CASE t = "appointmentType" -> {<<>>, XRows2, XRows3, XRowsComma, XRowsHeaderLike, XRowsNull}
      [] t = "appointment"     -> {XRows2, XRows3}
      [] OTHER                 -> {<<>>, XRows2}

XFaults ==
    {NoFault} \cup [table : Tables, kind : {"connect", "query", "write"}]

EtlIdle ==
    /\ tz = 0
    /\ exportKind = "json"
    /\ srcData = DefaultSource
    /\ db = EmptyDb
    /\ destUp = TRUE
    /\ srcUp = TRUE
    /\ ProcessStart
    /\ dIn = <<>>
    /\ dOut = <<>>

InitExport ==
    /\ script \in {"exportCsv", "exportJson"}
    /\ EtlIdle
    /\ WebIdle
    /\ xSource \in {f \in [Tables -> UNION {XSources(t) : t \in Tables}] :
                       \A t \in Tables : f[t] \in XSources(t)}
    /\ xFault \in XFaults
    /\ xPc = <<"export", 1>>
    /\ xExit = -1
    /\ artifacts = [t \in Tables |-> NoArtifact]
    /\ xWarned = {}
    /\ xAttempts = [t \in Tables |-> 0]

NextExportStep == ExportTable \/ ExportTableToJson \/ ExportComplete \/ ExportCatch

SpecExport == InitExport /\ [][NextExportStep]_vars

(***************************************************************************)
(* The web application: middleware.ts, app/api/auth/login and logout,      *)
(* app/api/employees (the file-backed and the Prisma-backed version of     *)
(* each route).  One browser talks to the server; it sends the auth_token  *)
(* cookie exactly when it holds it.                                        *)
(***************************************************************************)
MaxEmployees == 2
MaxId == 3

\* String.prototype.startsWith
StartsWith(s, prefix) == Len(s) >= Len(prefix) /\ SubSeq(s, 1, Len(prefix)) = prefix

Path_dashboard == <<"/", "d", "a", "s", "h", "b", "o", "a", "r", "d">>
Path_employeesTable == <<"/", "e", "m", "p", "l", "o", "y", "e", "e", "s", "-", "t", "a", "b", "l", "e">>
Path_login == <<"/", "l", "o", "g", "i", "n">>

\* config.matcher: the paths the middleware runs on
MatcherMatches(pathname) ==
    \/ pathname = Path_login
    \/ \E root \in {Path_dashboard, Path_employeesTable} :
           pathname = root \/ StartsWith(pathname, root \o <<"/">>)

PassThrough == <<"next">>

middlewareDashboardOnly(pathname, authToken) ==
    IF StartsWith(pathname, Path_dashboard) /\ ~authToken THEN Path_login
    ELSE IF pathname = Path_login /\ authToken THEN Path_dashboard
    ELSE PassThrough

\* middleware: NextResponse.next(), or the path it redirects to
middleware(pathname, authToken) ==
    IF (StartsWith(pathname, Path_dashboard) \/ StartsWith(pathname, Path_employeesTable))
           /\ ~authToken
    THEN Path_login
    ELSE IF pathname = Path_login /\ authToken THEN Path_dashboard
    ELSE PassThrough

\* lib/auth.ts validateCredentials: the hardcoded development credentials
validateCredentials(email, password) ==
    email = JStr(<<"a", "d", "m", "i", "n", "@", "e", "x", "a", "m", "p", "l", "e", ".", "c", "o", "m">>) /\ password = JStr(<<"q", "w", "e", "r", "t", "y">>)

isAuthenticatedAlways(hasCookie) == TRUE

\* isAuthenticated of the employee routes: !!request.cookies.get(AUTH_COOKIE)
isAuthenticated(hasCookie) == hasCookie

PayTypes == {<<"H", "o", "u", "r", "l", "y">>, <<"S", "a", "l", "a", "r", "y">>, <<"P", "c", "t">>}

\* a request body request.json() cannot parse
Malformed == [malformed |-> TRUE]

\* file-backed routes: { ...newEmployee, id: maxId + 1 } and
\* { ...updatedData, id: employeeId }; every property of the body is kept and
\* an id in the body is overridden
Employee(body, id) == [body EXCEPT !.id = id]

\* Prisma rejects a data object whose String field holds a number or a boolean
PrismaAccepts(body) ==
    \A f \in {"firstName", "lastName", "email", "payType"} :
        body[f][1] \in {"str", "null", "undefined"}

\* lib/db createEmployee: the row of prisma.employee.create
createEmployee(body, id) ==
    [id |-> id, firstName |-> body.firstName, lastName |-> body.lastName,
     email |-> body.email, active |-> IF Truthy(body.active) THEN 1 ELSE 0,
     payType |-> IF body.payType = JAbsent THEN JNull ELSE body.payType]

\* lib/db updateEmployee: the row after prisma.employee.update; an undefined
\* value leaves its column as it is
updateEmployee(old, body) ==
    [old EXCEPT !.firstName = body.firstName, !.lastName = body.lastName,
                !.email = body.email,
                !.active = IF Truthy(body.active) THEN 1 ELSE 0,
                !.payType = IF body.payType = JAbsent THEN @ ELSE body.payType]

\* Math.max(...employees.map(e => e.id)), 0 for an empty list
MaxIdOf(emps) ==
    IF emps = <<>> THEN 0
    ELSE CHOOSE m \in {emps[k].id : k \in 1..Len(emps)} :
             \A k \in 1..Len(emps) : emps[k].id <= m

IndexOf(emps, id) ==
    IF \E k \in 1..Len(emps) : emps[k].id = id
    THEN CHOOSE k \in 1..Len(emps) :
             emps[k].id = id /\ \A j \in 1..(k - 1) : emps[j].id # id
    ELSE 0

\* employees.filter(e => e.id !== employeeId)
RECURSIVE Without(_, _)
Without(emps, id) ==
    IF emps = <<>> THEN <<>>
    ELSE IF Head(emps).id = id THEN Without(Tail(emps), id)
    ELSE <<Head(emps)>> \o Without(Tail(emps), id)

\* the fields POST and PUT of the file-backed routes, and PUT of the
\* Prisma-backed route, require
MissingSalaryFields(body) ==
    \/ ~Truthy(body.firstName) \/ ~Truthy(body.lastName) \/ ~Truthy(body.email)
    \/ ~Truthy(body.salary) \/ ~Truthy(body.date)

\* the fields POST of the Prisma-backed route requires
MissingActiveFields(body) ==
    \/ ~Truthy(body.firstName) \/ ~Truthy(body.lastName) \/ ~Truthy(body.email)
    \/ body.active[1] # "bool" \/ ~Truthy(body.payType)

\* !['Hourly', 'Salary', 'Pct'].includes(newEmployee.payType)
InvalidPayType(body) == body.payType[1] # "str" \/ body.payType[2] \notin PayTypes

\* another row holds the email: with a unique index on employees.email the
\* statement fails with error P2002
EmailTaken(emps, email, exceptId) ==
    \E k \in 1..Len(emps) : emps[k].email = email /\ emps[k].id # exceptId

Result(status, emps, seq, access) ==
    [status |-> status, employees |-> emps, nextId |-> seq, access |-> access]

Unauthorized == Result(401, employees, nextId, FALSE)

\* GET /api/employees
GetResult ==
    IF ~isAuthenticated(cookie) THEN Unauthorized
    ELSE Result(200, employees, nextId, TRUE)

\* POST /api/employees
PostResult(body) ==
    IF ~isAuthenticated(cookie) THEN Unauthorized
    ELSE IF body = Malformed THEN Result(500, employees, nextId, FALSE)
    ELSE IF backend = "file"
    THEN IF MissingSalaryFields(body) THEN Result(400, employees, nextId, FALSE)
         ELSE Result(201, Append(employees, Employee(body, MaxIdOf(employees) + 1)),
                     nextId, TRUE)
    ELSE IF MissingActiveFields(body) THEN Result(400, employees, nextId, FALSE)
    ELSE IF InvalidPayType(body) THEN Result(400, employees, nextId, FALSE)
    ELSE IF ~PrismaAccepts(body) THEN Result(500, employees, nextId, FALSE)
    ELSE IF emailUnique /\ EmailTaken(employees, body.email, 0)
    THEN Result(409, employees, nextId + 1, TRUE)
    ELSE Result(201, Append(employees, createEmployee(body, nextId)), nextId + 1, TRUE)

\* PUT /api/employees/{id}; the Prisma-backed helper returns null for an id
\* that has no row (error P2025)
PutResult(id, body) ==
    IF ~isAuthenticated(cookie) THEN Unauthorized
    ELSE IF body = Malformed THEN Result(500, employees, nextId, FALSE)
    ELSE IF MissingSalaryFields(body) THEN Result(400, employees, nextId, FALSE)
    ELSE IF backend = "file"
    THEN IF IndexOf(employees, id) = 0 THEN Result(404, employees, nextId, TRUE)
         ELSE Result(200, [employees EXCEPT ![IndexOf(employees, id)] = Employee(body, id)],
                     nextId, TRUE)
    ELSE IF ~PrismaAccepts(body) THEN Result(500, employees, nextId, FALSE)
    ELSE IF IndexOf(employees, id) = 0 THEN Result(404, employees, nextId, TRUE)
    ELSE IF emailUnique /\ EmailTaken(employees, body.email, id)
    THEN Result(409, employees, nextId, TRUE)
    ELSE Result(200, [employees EXCEPT ![IndexOf(employees, id)] =
                          updateEmployee(employees[IndexOf(employees, id)], body)],
                nextId, TRUE)

\* DELETE /api/employees/{id}
DeleteResult(id) ==
    IF ~isAuthenticated(cookie) THEN Unauthorized
    ELSE IF IndexOf(employees, id) = 0 THEN Result(404, employees, nextId, TRUE)
    ELSE Result(200, Without(employees, id), nextId, TRUE)

ApiResponse(op, id, r) ==
    [op |-> op, id |-> id, hadCookie |-> cookie, status |-> r.status, access |-> r.access]

Respond(op, id, r) ==
    /\ response' = ApiResponse(op, id, r)
    /\ employees' = r.employees
    /\ nextId' = r.nextId
    /\ UNCHANGED <<etlVars, extractVars, cookie, backend, webAux>>

ApiGet ==
    /\ script = "web"
    /\ Respond("GET", 0, GetResult)

ApiPost(body) ==
    /\ script = "web"
    /\ Len(employees) < MaxEmployees
    /\ MaxIdOf(employees) < MaxId
    /\ nextId <= MaxId
    /\ Respond("POST", 0, PostResult(body))

ApiPut(id, body) ==
    /\ script = "web"
    /\ Respond("PUT", id, PutResult(id, body))

ApiDelete(id) ==
    /\ script = "web"
    /\ Respond("DELETE", id, DeleteResult(id))

\* POST /api/auth/login
Login(body) ==
    /\ script = "web"
    /\ LET status == IF body = Malformed THEN 500
                     ELSE IF ~Truthy(body.email) \/ ~Truthy(body.password) THEN 400
                     ELSE IF validateCredentials(body.email, body.password) THEN 200
                     ELSE 401
       IN  /\ response' = [op |-> "login", sent |-> body, hadCookie |-> cookie,
                           status |-> status, access |-> FALSE]
           /\ cookie' = (cookie \/ status = 200)
    /\ UNCHANGED <<etlVars, extractVars, webAux, backend, employees, nextId>>

\* POST /api/auth/logout
Logout ==
    /\ script = "web"
    /\ response' = [op |-> "logout", id |-> 0, hadCookie |-> cookie,
                    status |-> 200, access |-> FALSE]
    /\ cookie' = FALSE
    /\ UNCHANGED <<etlVars, extractVars, webAux, backend, employees, nextId>>

\* the cookie's maxAge of 7 days runs out in the browser
CookieExpires ==
    /\ script = "web"
    /\ cookie
    /\ cookie' = FALSE
    /\ UNCHANGED <<etlVars, extractVars, webAux, backend, employees, nextId, response>>

\* the browser requests a page
PageRequest(pathname) ==
    /\ script = "web"
    /\ response' = [op |-> "page", path |-> pathname, hadCookie |-> cookie,
                    location |-> IF MatcherMatches(pathname)
                                 THEN middleware(pathname, cookie) ELSE PassThrough]
    /\ UNCHANGED <<etlVars, extractVars, webAux, cookie, backend, employees, nextId>>

\* bounded requests
Body(email, salary, active, payType) ==
    [firstName |-> JStr(<<"A">>), lastName |-> JStr(<<"B">>), email |-> JStr(email),
     salary |-> salary, date |-> JStr(<<"d">>), active |-> active, payType |-> JStr(payType),
     id |-> JAbsent]

\* a valid body that also carries an id
BodyWithId == [Body(<<"c">>, JNum(1), JBool(TRUE), <<"P", "c", "t">>) EXCEPT !.id = JNum(3)]

\* the body the Add and Edit forms send: no active, no payType
FormBody(form) ==
    [firstName |-> JStr(form.firstName), lastName |-> JStr(form.lastName),
     email |-> JStr(form.email), salary |-> JStr(form.salary), date |-> JStr(form.date),
     active |-> JAbsent, payType |-> JAbsent, id |-> JAbsent]

Form(firstName, email) ==
    [firstName |-> firstName, lastName |-> <<"B">>, email |-> email,
     salary |-> <<"1">>, date |-> <<"d">>]

Forms == {Form(<<"A">>, <<"a">>), Form(<<"A">>, <<"f">>), Form(<<>>, <<"f">>)}

\* !firstName || !lastName || !email || !salary || !date on the form's state
FormIncomplete(form) ==
    \E f \in {"firstName", "lastName", "email", "salary", "date"} : form[f] = <<>>

\* AddEmployee handleAdd: the form's own check, the POST, and on an ok
\* response onSuccess(), which fetches the list again
AddEmployeeSubmit(form) ==
    /\ script = "web"
    /\ Len(employees) < MaxEmployees
    /\ MaxIdOf(employees) < MaxId
    /\ nextId <= MaxId
    /\ IF FormIncomplete(form)
       THEN /\ response' = [op |-> "add", form |-> form, hadCookie |-> cookie, sent |-> FALSE,
                            status |-> 0, access |-> FALSE, listed |-> <<>>]
            /\ UNCHANGED <<employees, nextId>>
       ELSE LET r == PostResult(FormBody(form))
            IN  /\ response' = [op |-> "add", form |-> form, hadCookie |-> cookie, sent |-> TRUE,
                                status |-> r.status, access |-> r.access,
                                listed |-> IF r.status = 201 THEN r.employees ELSE <<>>]
                /\ employees' = r.employees
                /\ nextId' = r.nextId
    /\ UNCHANGED <<etlVars, extractVars, cookie, backend, webAux>>

Bodies ==
    { Body(<<"a">>, JNum(1), JBool(TRUE), <<"H", "o", "u", "r", "l", "y">>),
      Body(<<"b">>, JNum(1), JBool(FALSE), <<"S", "a", "l", "a", "r", "y">>),
      Body(<<"b">>, JNum(0), JNull, <<"P", "c", "t">>),
      Body(<<"a">>, JNum(1), JBool(TRUE), <<"X">>),
      [Body(<<"b">>, JNum(1), JNum(1), <<>>) EXCEPT !.payType = JNum(5)],
      Body(<<>>, JNum(1), JBool(TRUE), <<"P", "c", "t">>),
      BodyWithId,
      Malformed }

LoginBodies ==
    { [email |-> JStr(<<"a", "d", "m", "i", "n", "@", "e", "x", "a", "m", "p", "l", "e", ".", "c", "o", "m">>), password |-> JStr(<<"q", "w", "e", "r", "t", "y">>)],
      [email |-> JStr(<<"a", "d", "m", "i", "n", "@", "e", "x", "a", "m", "p", "l", "e", ".", "c", "o", "m">>), password |-> JStr(<<"x">>)],
      [email |-> JStr(<<"a", "d", "m", "i", "n", "@", "e", "x", "a", "m", "p", "l", "e", ".", "c", "o", "m">>), password |-> JNull],
      Malformed }

Paths ==
    { Path_dashboard, Path_dashboard \o <<"/", "x">>, Path_dashboard \o <<"x">>,
      Path_employeesTable, Path_login, <<"/">> }

NoResponse == [op |-> "none"]

\* lib/data employeesData, one employee of it
SeedEmployees == <<Employee(Body(<<"a">>, JNum(1), JBool(TRUE), <<"H", "o", "u", "r", "l", "y">>), 1)>>

\* the same employee as a row of the employees table
SeedRows == <<createEmployee(Body(<<"a">>, JNum(1), JBool(TRUE), <<"H", "o", "u", "r", "l", "y">>), 1)>>

InitWeb ==
    /\ script = "web"
    /\ EtlIdle
    /\ ExtractIdle
    /\ cookie = FALSE
    /\ backend \in {"file", "prisma"}
    /\ employees \in {<<>>, SeedEmployees, SeedRows}
    /\ backend = "file" => employees = SeedEmployees
    /\ backend = "prisma" => employees # SeedEmployees
    /\ nextId = MaxIdOf(employees) + 1
    /\ response = NoResponse
    /\ emailUnique \in BOOLEAN
    /\ backend = "file" => ~emailUnique
    /\ pending = {}
    /\ answers = <<>>

NextWeb ==
    \/ \E body \in LoginBodies : Login(body)
    \/ Logout
    \/ CookieExpires
    \/ \E pathname \in Paths : PageRequest(pathname)
    \/ ApiGet
    \/ \E body \in Bodies : ApiPost(body)
    \/ \E id \in 1..MaxId, body \in Bodies : ApiPut(id, body)
    \/ \E id \in 1..MaxId : ApiDelete(id)
    \/ \E form \in Forms : AddEmployeeSubmit(form)

SpecWeb == InitWeb /\ [][NextWeb]_vars

(***************************************************************************)
(* The file-backed employee routes with requests in flight together        *)
(***************************************************************************)
\* Requests started, pending or answered.
MaxRequests == 3

Started == Len(answers) + Cardinality(pending)

FileAnswer(op, id, status) ==
    [op |-> op, id |-> id, status |-> status]

\* the part of a handler up to and including `await readEmployees()`: the
\* checks that answer at once, else the list read from employees.json
FileRequest(op, id, body) ==
    /\ script = "web" /\ backend = "file"
    /\ Started < MaxRequests
    /\ LET status ==
               IF ~isAuthenticated(cookie) THEN 401
               ELSE IF op # "DELETE" /\ MissingSalaryFields(body) THEN 400
               ELSE IF op # "POST" /\ IndexOf(employees, id) = 0 THEN 404
               ELSE 0
       IN  IF status = 0
           THEN /\ pending' = pending \cup {[n |-> Started + 1, op |-> op, id |-> id,
                                             body |-> body, employees |-> employees]}
                /\ UNCHANGED <<answers, response>>
           ELSE /\ answers' = Append(answers, FileAnswer(op, id, status))
                /\ response' = [op |-> op, id |-> id, hadCookie |-> cookie,
                                status |-> status, access |-> status = 404]
                /\ UNCHANGED pending
    /\ UNCHANGED <<etlVars, extractVars, cookie, backend, employees, nextId, emailUnique>>

\* the list a handler writes, computed from the list it read
FileWritten(r) ==
    CASE r.op = "POST" ->
           Append(r.employees, Employee(r.body, MaxIdOf(r.employees) + 1))
      [] r.op = "PUT" ->
           [r.employees EXCEPT ![IndexOf(r.employees, r.id)] = Employee(r.body, r.id)]
      [] r.op = "DELETE" -> Without(r.employees, r.id)

\* the rest of the handler: `await writeEmployees(...)` replaces the whole
\* file, then the answer is sent
FileWriteOf(r) ==
    /\ script = "web" /\ backend = "file"
    /\ r \in pending
    /\ employees' = FileWritten(r)
    /\ pending' = pending \ {r}
    /\ LET id == IF r.op = "POST" THEN MaxIdOf(r.employees) + 1 ELSE r.id
           status == IF r.op = "POST" THEN 201 ELSE 200
       IN  /\ answers' = Append(answers, FileAnswer(r.op, id, status))
           /\ response' = [op |-> r.op, id |-> id, hadCookie |-> TRUE,
                           status |-> status, access |-> TRUE]
    /\ UNCHANGED <<etlVars, extractVars, cookie, backend, nextId, emailUnique>>

\* request number n finishes
FileWrite(n) == \E r \in pending : r.n = n /\ FileWriteOf(r)

FileBodies ==
    { Body(<<"a">>, JNum(1), JBool(TRUE), <<"H", "o", "u", "r", "l", "y">>),
      Body(<<"b">>, JNum(0), JNull, <<"P", "c", "t">>),
      BodyWithId }

InitFile ==
    /\ InitWeb
    /\ backend = "file"

NextFile ==
    \/ \E body \in LoginBodies : Login(body)
    \/ Logout
    \/ \E op \in {"POST", "PUT", "DELETE"}, id \in 1..MaxId, body \in FileBodies :
           FileRequest(op, id, body)
    \/ \E n \in 1..MaxRequests : FileWrite(n)

SpecFile == InitFile /\ [][NextFile]_vars

(***************************************************************************)
(* The seed script (scripts/migrate-data.ts) and the test migration        *)
(* (scripts/test-migration.ts)                                             *)
(***************************************************************************)
employeesData ==
    << [firstName |-> "Susan", lastName |-> "Jordon", email |-> "susan@example.com",
        salary |-> "95000", date |-> <<"2", "0", "1", "9", "-", "0", "4", "-", "1", "1">>],
       [firstName |-> "Adrienne", lastName |-> "Doak", email |-> "adrienne@example.com",
        salary |-> "80000", date |-> <<"2", "0", "1", "9", "-", "0", "4", "-", "1", "7">>],
       [firstName |-> "Rolf", lastName |-> "Hegdal", email |-> "rolf@example.com",
        salary |-> "79000", date |-> <<"2", "0", "1", "9", "-", "0", "5", "-", "0", "1">>],
       [firstName |-> "Kent", lastName |-> "Rosner", email |-> "kent@example.com",
        salary |-> "56000", date |-> <<"2", "0", "1", "9", "-", "0", "5", "-", "0", "3">>],
       [firstName |-> "Arsenio", lastName |-> "Grant", email |-> "arsenio@example.com",
        salary |-> "65000", date |-> <<"2", "0", "1", "9", "-", "0", "6", "-", "1", "3">>],
       [firstName |-> "Laurena", lastName |-> "Lurie", email |-> "laurena@example.com",
        salary |-> "120000", date |-> <<"2", "0", "1", "9", "-", "0", "7", "-", "3", "0">>],
       [firstName |-> "George", lastName |-> "Tallman", email |-> "george@example.com",
        salary |-> "90000", date |-> <<"2", "0", "1", "9", "-", "0", "8", "-", "1", "5">>],
       [firstName |-> "Jesica", lastName |-> "Watlington", email |-> "jesica@example.com",
        salary |-> "60000", date |-> <<"2", "0", "1", "9", "-", "1", "0", "-", "1", "0">>],
       [firstName |-> "Matthew", lastName |-> "Warren", email |-> "matthew@example.com",
        salary |-> "71000", date |-> <<"2", "0", "1", "9", "-", "1", "0", "-", "1", "5">>],
       [firstName |-> "Lyndsey", lastName |-> "Follette", email |-> "lyndsey@example.com",
        salary |-> "110000", date |-> <<"2", "0", "2", "0", "-", "0", "1", "-", "1", "5">>] >>

\* data of prisma.employee.create; new Date('YYYY-MM-DD') is 00:00 UTC
SeedData(employee) ==
    [firstName |-> employee.firstName, lastName |-> employee.lastName,
     email |-> employee.email, salary |-> employee.salary,
     date |-> NewDateFromString(employee.date)]

\* the row the create stores: the id comes from the sequence, the DATE column
\* keeps the UTC calendar date
SeedRow(data, id) == [data EXCEPT !.date = StoredDate(@)] @@ [id |-> id]

\* rows of the table without their ids
SeedContent(emps) == [k \in 1..Len(emps) |-> [f \in DOMAIN emps[k] \ {"id"} |-> emps[k][f]]]

SeedStartPc(s) == IF s = "seed" THEN <<"count", 0>> ELSE <<"connectSql", 0>>

\* what a run found in its table when it started
RunStart(s, emps, d) ==
    [table |-> IF s = "seed" THEN SeedContent(emps) ELSE d["appointmentType"],
     threw |-> FALSE]

SeedCountAlwaysCreates ==
    /\ script = "seed" /\ pc[1] = "count"
    /\ pc' = IF ~destUp THEN <<"catch", 0>>
             ELSE <<"create", 0>>
    /\ prismaOpen' = destUp
    /\ UNCHANGED <<extractVars, cookie, backend, response, webAux, tz, exportKind, script, srcData, srcUp, inserted, failed, errors, failedAt, loadsDone, firstCounts, dIn, dOut,
                   db, destUp, idx, poolOpen, exitCode, run, report, employees, nextId>>

\* const existingCount = await prisma.employee.count(); if (existingCount > 0) return
SeedCount ==
    /\ script = "seed" /\ pc[1] = "count"
    /\ pc' = IF ~destUp THEN <<"catch", 0>>
             ELSE IF Len(employees) > 0 THEN <<"finally", 0>>
             ELSE <<"create", 0>>
    /\ prismaOpen' = destUp
    /\ UNCHANGED <<extractVars, cookie, backend, response, webAux, tz, exportKind, script, srcData, srcUp, inserted, failed, errors, failedAt, loadsDone, firstCounts, dIn, dOut,
                   db, destUp, idx, poolOpen, exitCode, run, report, employees, nextId>>

\* one pass of `for (const employee of employeesData) await prisma.employee.create(...)`
SeedCreate ==
    /\ script = "seed" /\ pc[1] = "create"
    /\ idx < Len(employeesData)
    /\ IF destUp
       THEN /\ employees' = Append(employees, SeedRow(SeedData(employeesData[idx + 1]), nextId))
            /\ nextId' = nextId + 1
            /\ idx' = idx + 1
            /\ pc' = pc
       ELSE /\ pc' = <<"catch", 0>>
            /\ UNCHANGED <<employees, nextId, idx>>
    /\ UNCHANGED <<extractVars, cookie, backend, response, webAux, tz, exportKind, script, srcData, srcUp, inserted, failed, errors, failedAt, loadsDone, firstCounts, dIn, dOut,
                   db, destUp, prismaOpen, poolOpen, exitCode, run, report>>

\* the loop ends and main returns
SeedComplete ==
    /\ script = "seed" /\ pc[1] = "create"
    /\ idx = Len(employeesData)
    /\ pc' = <<"finally", 0>>
    /\ UNCHANGED <<extractVars, cookie, backend, response, webAux, tz, exportKind, script, srcData, srcUp, inserted, failed, errors, failedAt, loadsDone, firstCounts, dIn, dOut,
                   db, destUp, idx, prismaOpen, poolOpen, exitCode, run, report, employees, nextId>>

\* .catch: console.error and process.exit(1)
SeedCatch ==
    /\ script = "seed" /\ pc[1] = "catch"
    /\ exitCode' = 1
    /\ pc' = <<"end", 0>>
    /\ UNCHANGED <<extractVars, cookie, backend, response, webAux, tz, exportKind, script, srcData, srcUp, inserted, failed, errors, failedAt, loadsDone, firstCounts, dIn, dOut,
                   db, destUp, idx, prismaOpen, poolOpen, run, report, employees, nextId>>

\* .finally: await prisma.$disconnect()
SeedFinally ==
    /\ script = "seed" /\ pc[1] = "finally"
    /\ prismaOpen' = FALSE
    /\ exitCode' = 0
    /\ pc' = <<"end", 0>>
    /\ UNCHANGED <<extractVars, cookie, backend, response, webAux, tz, exportKind, script, srcData, srcUp, inserted, failed, errors, failedAt, loadsDone, firstCounts, dIn, dOut,
                   db, destUp, idx, poolOpen, run, report, employees, nextId>>

\* pool = await sql.connect(sqlConfig); await prisma.$connect()
TestMigrationConnect ==
    /\ script = "testMigration" /\ pc[1] = "connectSql"
    /\ poolOpen' = srcUp
    /\ prismaOpen' = (srcUp /\ destUp)
    /\ pc' = IF srcUp /\ destUp THEN <<"count", 0>> ELSE <<"finally", 1>>
    /\ UNCHANGED <<extractVars, cookie, backend, response, webAux, tz, exportKind, script, srcData, srcUp, inserted, failed, errors, failedAt, loadsDone, firstCounts, dIn, dOut,
                   db, destUp, idx, exitCode, run, report, employees, nextId>>

\* the SELECT, then existingCount = await prisma.appointmentType.count();
\* if (existingCount > 0) return
TestMigrationCount ==
    /\ script = "testMigration" /\ pc[1] = "count"
    /\ pc' = IF ~destUp THEN <<"finally", 1>>
             ELSE IF Cardinality(db["appointmentType"]) > 0 THEN <<"finally", 0>>
             ELSE <<"create", 0>>
    /\ UNCHANGED <<extractVars, cookie, backend, response, webAux, tz, exportKind, script, srcData, srcUp, inserted, failed, errors, failedAt, loadsDone, firstCounts, dIn, dOut,
                   db, destUp, idx, prismaOpen, poolOpen, exitCode, run, report, employees, nextId>>

\* one pass of `for (const type of types) await prisma.appointmentType.create(...)`
TestMigrationCreate ==
    /\ script = "testMigration" /\ pc[1] = "create"
    /\ idx < Len(srcData["appointmentType"])
    /\ LET data == MigrateData("appointmentType", srcData["appointmentType"][idx + 1])
       IN  IF destUp /\ CreateOk("appointmentType", data, db)
           THEN /\ db' = [db EXCEPT !["appointmentType"] =
                              @ \cup {StoredRow("appointmentType", data)}]
                /\ idx' = idx + 1
                /\ pc' = pc
           ELSE /\ pc' = <<"finally", 1>>
                /\ UNCHANGED <<db, idx>>
    /\ UNCHANGED <<extractVars, cookie, backend, response, webAux, tz, exportKind, script, srcData, srcUp, inserted, failed, errors, failedAt, loadsDone, firstCounts, dIn, dOut,
                   destUp, prismaOpen, poolOpen, exitCode, run, report, employees, nextId>>

\* the loop ends; the counts are compared and printed
TestMigrationVerify ==
    /\ script = "testMigration" /\ pc[1] = "create"
    /\ idx = Len(srcData["appointmentType"])
    /\ pc' = <<"finally", IF destUp THEN 0 ELSE 1>>
    /\ UNCHANGED <<extractVars, cookie, backend, response, webAux, tz, exportKind, script, srcData, srcUp, inserted, failed, errors, failedAt, loadsDone, firstCounts, dIn, dOut,
                   db, destUp, idx, prismaOpen, poolOpen, exitCode, run, report, employees, nextId>>

\* finally { pool.close(); prisma.$disconnect() }; a rethrown error ends in
\* testMigration().catch(console.error), so the process exits normally
TestMigrationFinally ==
    /\ script = "testMigration" /\ pc[1] = "finally"
    /\ poolOpen' = FALSE
    /\ prismaOpen' = FALSE
    /\ exitCode' = 0
    /\ report' = [report EXCEPT !.threw = (pc[2] = 1)]
    /\ pc' = <<"end", 0>>
    /\ UNCHANGED <<extractVars, cookie, backend, response, webAux, tz, exportKind, script, srcData, srcUp, inserted, failed, errors, failedAt, loadsDone, firstCounts, dIn, dOut,
                   db, destUp, idx, run, employees, nextId>>

\* the destination database becomes unreachable while a script runs
DestinationLost ==
    /\ script \in {"seed", "testMigration"}
    /\ pc[1] \in {"count", "create"}
    /\ destUp
    /\ destUp' = FALSE
    /\ UNCHANGED <<extractVars, cookie, backend, response, webAux, tz, exportKind, script, srcData, srcUp, inserted, failed, errors, failedAt, loadsDone, firstCounts, dIn, dOut,
                   db, pc, idx, prismaOpen, poolOpen, exitCode, run, report, employees, nextId>>

\* the operator starts the script again
SeedRunAgain ==
    /\ script \in {"seed", "testMigration"}
    /\ pc[1] = "end"
    /\ run < MaxRuns
    /\ run' = run + 1
    /\ pc' = SeedStartPc(script)
    /\ idx' = 0
    /\ exitCode' = 0 - 1
    /\ destUp' \in BOOLEAN
    /\ report' = RunStart(script, employees, db)
    /\ UNCHANGED <<extractVars, cookie, backend, response, webAux, tz, exportKind, script, srcData, srcUp, inserted, failed, errors, failedAt, loadsDone, firstCounts, dIn, dOut,
                   db, prismaOpen, poolOpen, employees, nextId>>

\* a table left by an earlier, interrupted run of the seed script
SeedLeftover == <<SeedRow(SeedData(employeesData[1]), 1)>>

InitSeed ==
    /\ script \in {"seed", "testMigration"}
    /\ ExtractIdle
    /\ tz = 0
    /\ exportKind = "json"
    /\ srcUp = TRUE
    /\ destUp \in BOOLEAN
    /\ dIn = <<>>
    /\ dOut = <<>>
    /\ srcData \in {[DefaultSource EXCEPT !["appointmentType"] = f] : f \in TypeFiles}
    /\ script = "seed" => srcData = DefaultSource
    /\ db \in InitialDbs
    /\ script = "seed" => db = EmptyDb
    /\ employees \in {<<>>, SeedLeftover}
    /\ script = "testMigration" => employees = <<>>
    /\ nextId = MaxIdOf(employees) + 1
    /\ cookie = FALSE
    /\ backend = "none"
    /\ response = <<>>
    /\ emailUnique = FALSE
    /\ pending = {}
    /\ answers = <<>>
    /\ pc = SeedStartPc(script)
    /\ idx = 0
    /\ inserted = NoCounts
    /\ failed = 0
    /\ errors = <<>>
    /\ failedAt = {}
    /\ loadsDone = {}
    /\ prismaOpen = FALSE
    /\ poolOpen = FALSE
    /\ exitCode = 0 - 1
    /\ run = 1
    /\ firstCounts = NoCounts
    /\ report = RunStart(script, employees, db)

NextSeed ==
    \/ SeedCount
    \/ SeedCreate
    \/ SeedComplete
    \/ SeedCatch
    \/ SeedFinally
    \/ TestMigrationConnect
    \/ TestMigrationCount
    \/ TestMigrationCreate
    \/ TestMigrationVerify
    \/ TestMigrationFinally
    \/ DestinationLost
    \/ SeedRunAgain

SpecSeed == InitSeed /\ [][NextSeed]_vars

(***************************************************************************)
(* Properties                                                              *)
(***************************************************************************)
SourceIds(t) == {srcData[t][k].ID : k \in 1..Len(srcData[t])}

\* C1: every Client record whose source Next_Appt is the year-0001 sentinel is
\* written with a null nextAppt, and no client row ever holds the literal
\* sentinel date.
C1_SentinelStoredAsNull ==
    /\ \A k \in 1..Len(srcData["client"]) :
           srcData["client"][k].Next_Appt = SentinelDate =>
               \A r \in db["client"] :
                   r.id = srcData["client"][k].ID => r.nextAppt = NullDate
    /\ \A r \in db["client"] : r.nextAppt # SentinelDate

\* C2: for every source date in year 1900 or later, whatever text the export
\* wrote for it, parseDate returns a non-null, valid Date that denotes the
\* same calendar date (in UTC or in the process's zone).
C2_ParseDateRoundTrip ==
    (dOut # <<>> /\ dOut[1] = "parseDate" /\ dIn.d[1] >= 1900) =>
        /\ dOut[2] # NullDate
        /\ dOut[2] # InvalidDate
        /\ (Utc(dOut[2]) = dIn.d \/ Loc(dOut[2]) = dIn.d)

\* A record that no loader step rejects once its own table is empty and the
\* parent tables are as they are now.
WellFormed(t, record) ==
    /\ ~ImportThrows(t, record)
    /\ CreateOk(t, ImportData(t, record), [db EXCEPT ![t] = {}])

BatchOffsets(t) == {i \in 0..(Len(srcData[t]) - 1) : i % BATCH_SIZE = 0}

BatchIds(t, i) == {Slice(srcData[t], i)[k].ID : k \in 1..Len(Slice(srcData[t], i))}

WellFormedBatch(t, i) ==
    \A k \in 1..Len(Slice(srcData[t], i)) : WellFormed(t, Slice(srcData[t], i)[k])

\* the batches of table t other than batch n are in the destination, those at
\* least that hold well-formed records only
OtherBatchesPresent(t, n) ==
    \A i \in BatchOffsets(t) \ {n} : WellFormedBatch(t, i) => BatchIds(t, i) \subseteq Ids(t, db)

\* C3: when a batch of a batched loader (TimePeriod, Client, Rate,
\* Appointment) fails, the run is not aborted, and at the end of the run every
\* well-formed record of every other batch of that table is in the destination.
C3_BatchFailureIsolation ==
    script = "import" =>
        /\ pc[1] = "catch" => \A f \in failedAt : f[1] \notin Batched
        /\ pc[1] = "end" =>
               \A f \in failedAt : f[1] \in Batched => OtherBatchesPresent(f[1], f[2])

RECURSIVE SumBatchSizes(_)
SumBatchSizes(S) ==
    IF S = {} THEN 0
    ELSE LET f == CHOOSE x \in S : TRUE
         IN  Len(Slice(srcData[f[1]], f[2])) + SumBatchSizes(S \ {f})

\* C4: once the tables are cleared, every batch is in the destination with all
\* of its records or with none; a failed batch has none, and the failed
\* counter equals the summed sizes of the failed batches.
C4_BatchAllOrNothingCounted ==
    (script = "import" /\ pc[1] # "clear") =>
        /\ \A t \in Batched : \A i \in BatchOffsets(t) :
               \/ BatchIds(t, i) \subseteq Ids(t, db)
               \/ BatchIds(t, i) \cap Ids(t, db) = {}
        /\ \A f \in failedAt : f[1] \in Batched =>
               BatchIds(f[1], f[2]) \cap Ids(f[1], db) = {}
        /\ failed = SumBatchSizes({f \in failedAt : f[1] \in Batched})

LoadOrderClaimed ==
    <<"appointmentType", "employee", "timePeriod", "client", "rate", "appointment">>

\* an insert of table t has been issued in this run
Issued(t) == inserted[t] > 0 \/ \E f \in failedAt : f[1] = t

ReferencesExist ==
    \A c \in Tables : \A fk \in ForeignKeys[c] : \A r \in db[c] :
        r[fk[1]] = NULL \/ r[fk[1]] \in Ids(fk[2], db)

\* C5 (as amended): loads finish in the order AppointmentType, Employee,
\* TimePeriod, Client, Rate, Appointment, and no insert of a table is issued
\* before the loads of all earlier tables have finished; every row references
\* only existing parent rows; and while a parent table is empty, the rows of a
\* child table all hold null in the column that references it.
C5_LoadOrderAndReferences ==
    /\ \A k \in 1..Len(LoadOrderClaimed) :
           (Issued(LoadOrderClaimed[k]) \/ LoadOrderClaimed[k] \in loadsDone) =>
               \A j \in 1..(k - 1) : LoadOrderClaimed[j] \in loadsDone
    /\ ReferencesExist
    /\ \A c \in Tables : \A fk \in ForeignKeys[c] :
           db[fk[2]] = {} => \A r \in db[c] : r[fk[1]] = NULL

\* C5 witness: the Employee load has finished on an empty table and the Client
\* load has inserted rows, all without an employee.
C5_Witness ==
    /\ script = "import"
    /\ "employee" \in loadsDone
    /\ db["employee"] = {}
    /\ inserted["client"] > 0
    /\ \A r \in db["client"] : r.employeeId = NULL

\* C5 as stated: a child load against an empty parent table inserts no row.
C5_EmptyParentNoChildRow ==
    /\ \A k \in 1..Len(LoadOrderClaimed) :
           Issued(LoadOrderClaimed[k]) =>
               \A j \in 1..(k - 1) : LoadOrderClaimed[j] \in loadsDone
    /\ ReferencesExist
    /\ \A c \in Tables : \A fk \in ForeignKeys[c] :
           (script \in {"import", "migrate"} /\ db[fk[2]] = {}) => inserted[c] = 0

ClearOrderClaimed ==
    <<"appointment", "rate", "client", "timePeriod", "employee", "appointmentType">>

\* C6: in an import run the tables are cleared in the order Appointment, Rate,
\* Client, TimePeriod, Employee, AppointmentType; while clearing, no insert has
\* been issued, the tables before the current one are empty and no row
\* references a row of the table about to be cleared; the clear itself never
\* fails; from then on each table holds exactly the rows this run inserted.
C6_ClearedChildrenFirst ==
    script = "import" =>
        /\ pc[1] = "clear" =>
               /\ inserted = NoCounts /\ failedAt = {}
               /\ \A j \in 1..(pc[2] - 1) : db[ClearOrderClaimed[j]] = {}
               /\ ~Referenced(ClearOrderClaimed[pc[2]], db)
        /\ (pc[1] = "catch" /\ destUp) => failedAt # {}
        /\ pc[1] # "clear" => \A t \in Tables : Cardinality(db[t]) = inserted[t]

\* C6 witness: the clear has emptied the child tables of a destination that
\* held rows and is about to clear TimePeriod, parents still filled.
C6_Witness ==
    /\ script = "import"
    /\ pc = <<"clear", 4>>
    /\ db["appointment"] = {} /\ db["rate"] = {} /\ db["client"] = {}
    /\ db["employee"] # {} /\ db["appointmentType"] # {}

\* C7: at the end of every import run after the first, each table has the row
\* count it had at the end of the first run.
C7_SecondRunSameCounts ==
    (script = "import" /\ run >= 2 /\ pc[1] = "end") => Counts(db) = firstCounts

\* C7 witness: a second run has completed and left appointments behind.
C7_Witness ==
    /\ script = "import"
    /\ run = 2
    /\ pc[1] = "end"
    /\ exitCode = 0
    /\ Cardinality(db["appointment"]) > 0
    /\ Counts(db) = firstCounts

\* The export of the end-to-end scenario: 3 appointment types, 2 employees (one
\* active, one inactive), 1 client whose Next_Appt is the sentinel.
C8_Scenario ==
    /\ script = "import"
    /\ Len(srcData["appointmentType"]) = 3
    /\ srcData["employee"] = EmployeeRows2
    /\ srcData["client"] = ClientRows1

C8_OthersEmpty ==
    /\ srcData["timePeriod"] = <<>>
    /\ srcData["rate"] = <<>>
    /\ srcData["appointment"] = <<>>

C8_CompletedRun == pc[1] = "end" /\ exitCode = 0

\* C8 (as amended): in the scenario, when no exported type has ID 11 or 41 the
\* run completes (the other files being empty and the destination reachable)
\* and every completed run ends with 5 appointment-type rows (the 3 exported
\* ones and IDs 11 and 41), 2 employee rows, 1 client row with null nextAppt,
\* and a verifier count of 0; when an exported type has ID 11 or 41 the run
\* ends in failure with no employee and no client row.
C8_EndToEnd ==
    C8_Scenario =>
        IF SourceIds("appointmentType") \cap {11, 41} = {}
        THEN /\ (C8_OthersEmpty /\ destUp /\ pc[1] = "end") => exitCode = 0
             /\ C8_CompletedRun =>
                    /\ Ids("appointmentType", db) = SourceIds("appointmentType") \cup {11, 41}
                    /\ Cardinality(db["appointmentType"]) = 5
                    /\ Cardinality(db["employee"]) = 2
                    /\ Cardinality(db["client"]) = 1
                    /\ \A r \in db["client"] : r.nextAppt = NullDate
                    /\ report.invalidDatesCount = 0
        ELSE pc[1] = "end" =>
                    /\ exitCode = 1
                    /\ db["employee"] = {}
                    /\ db["client"] = {}

\* C8 witness: the scenario's run has completed with the other files empty.
C8_Witness ==
    /\ C8_Scenario
    /\ C8_OthersEmpty
    /\ C8_CompletedRun
    /\ Cardinality(db["appointmentType"]) = 5
    /\ report.invalidDatesCount = 0

\* C8 as stated: the completed run of the scenario ends with exactly 3
\* appointment-type rows, 2 employee rows, 1 client row with null nextAppt and
\* a verifier count of 0.
C8_ThreeTypeRows ==
    (C8_Scenario /\ C8_CompletedRun) =>
        /\ Cardinality(db["appointmentType"]) = 3
        /\ Cardinality(db["employee"]) = 2
        /\ Cardinality(db["client"]) = 1
        /\ \A r \in db["client"] : r.nextAppt = NullDate
        /\ report.invalidDatesCount = 0

\* C9: after a failure-free import run the primary keys of each table are the
\* source IDs, AppointmentType holding IDs 11 and 41 in addition; and the
\* create of an appended row never fails.
C9_IdsPreservedAppendSafe ==
    script = "import" =>
        /\ (pc[1] = "end" /\ exitCode = 0 /\ failedAt = {}) =>
               \A t \in Tables :
                   Ids(t, db) = SourceIds(t) \cup
                                (IF t = "appointmentType" THEN {11, 41} ELSE {})
        /\ \A f \in failedAt :
               ~(f[1] = "appointmentType" /\ f[2] >= Len(srcData["appointmentType"]))

\* C10: when the process has terminated, no connection it opened is still
\* open.
C10_ConnectionsClosedAtExit ==
    exitCode # -1 => ~prismaOpen /\ ~poolOpen

StageRank(p) ==
    CASE p[1] = "clear"    -> 0
      [] p[1] = "load"     -> p[2]
      [] p[1] = "verify"   -> 7
      [] p[1] = "complete" -> 8
      [] p[1] = "catch"    -> 9
      [] p[1] = "end"      -> 10
      [] OTHER             -> 0

C11_Step ==
    (script = "import" /\ run' = run) =>
        /\ StageRank(pc') >= StageRank(pc)
        /\ (pc[1] = "load" /\ pc' = pc) => idx' > idx
        /\ loadsDone \subseteq loadsDone'
        /\ loadsDone' # loadsDone =>
               /\ pc[1] = "load"
               /\ ImportOrder[pc[2]] \notin loadsDone
               /\ loadsDone' = loadsDone \cup {ImportOrder[pc[2]]}
        /\ (pc'[1] = "verify" /\ pc[1] # "verify") => loadsDone' = Tables
        /\ pc[1] = "verify" => (pc'[1] = "complete" /\ db' = db)
        /\ pc[1] = "complete" => (pc'[1] = "end" /\ exitCode' = 0 /\ db' = db)
        /\ pc[1] = "catch" =>
               /\ pc'[1] = "end" /\ exitCode' = 1
               /\ db' = db /\ inserted' = inserted /\ report' = report
               /\ report = NoReport
        /\ pc[1] # "end"

\* C11: within one import run the stage only moves forward (clear, the six
\* loads in order, verify, then completed or aborted); each step inside a
\* loader takes a new batch; a loader returns once; verification starts only
\* when all six loaders have returned; after an abort nothing is inserted,
\* verified or retried before the process ends.
C11_ForwardOnly == [][C11_Step]_vars

\* C11 witness: a run was aborted in the middle of the Client load and has
\* ended.
C11_Witness ==
    /\ script = "import"
    /\ pc[1] = "end" /\ exitCode = 1
    /\ inserted["client"] > 0
    /\ "client" \notin loadsDone
    /\ report = NoReport

BigIntField(t) == IF t = "rate" THEN "GustoID" ELSE "ApptSP_ID"

BigIntColumn(t) == IF t = "rate" THEN "gustoId" ELSE "apptSpId"

Unparsable(v) == Truthy(v) /\ ~BigIntOk(v)

WithoutBigInt(t, record) == [record EXCEPT ![BigIntField(t)] = JNull]

\* C14: a Rate or Appointment record whose big-integer field is present but
\* unparsable is stored with null in that field, and a batch whose records are
\* well formed apart from their big-integer fields never fails.
C14_BigIntFailureDegrades ==
    script = "import" =>
        \A t \in {"rate", "appointment"} :
            /\ \A k \in 1..Len(srcData[t]) :
                   Unparsable(srcData[t][k][BigIntField(t)]) =>
                       \A r \in db[t] :
                           r.id = srcData[t][k].ID => r[BigIntColumn(t)] = NULL
            /\ \A f \in failedAt : f[1] = t =>
                   \E k \in 1..Len(Slice(srcData[t], f[2])) :
                       ~WellFormed(t, WithoutBigInt(t, Slice(srcData[t], f[2])[k]))

IsZeroOrFalse(v) == (v[1] = "num" /\ v[2] = 0) \/ (v[1] = "bool" /\ ~v[2])

BooleanFields ==
    [ client      |-> {<<"TxPlan", "txPlan">>, <<"Active", "active">>},
      appointment |-> {<<"HasProgressNote", "hasProgressNote">>, <<"Flagged", "flagged">>} ]

\* C15: in every Client and Appointment row the import has written, a boolean
\* field whose source value is 1 or true holds true and one whose source value
\* is 0 or false holds false.
C15_BooleansNormalized ==
    (script = "import" /\ pc[1] # "clear") =>
        \A t \in {"client", "appointment"} : \A k \in 1..Len(srcData[t]) :
            \A r \in db[t] : r.id = srcData[t][k].ID =>
                \A fc \in BooleanFields[t] :
                    /\ IsOneOrTrue(srcData[t][k][fc[1]]) => r[fc[2]] = "true"
                    /\ IsZeroOrFalse(srcData[t][k][fc[1]]) => r[fc[2]] = "false"

ClientsBefore1900 ==
    {c \in db["client"] : c.nextAppt # NullDate /\ DateBefore(c.nextAppt, <<1900, 1, 1>>)}

\* C16: once verifyImport has run, no Client row has a nextAppt earlier than
\* 1900-01-01, the verifier's count is that number (zero), and its warning
\* was emitted exactly if the count is non-zero.
C16_NoDateBefore1900 ==
    (script = "import" /\ report # NoReport) =>
        /\ ClientsBefore1900 = {}
        /\ report.invalidDatesCount = Cardinality(ClientsBefore1900)
        /\ report.warned <=> (report.invalidDatesCount > 0)

\* C16 witness: verification has run on a Client table loaded from records
\* that carry the sentinel and a date of 1899, all stored with null.
C16_Witness ==
    /\ script = "import"
    /\ report # NoReport
    /\ srcData["client"] = ClientRows3
    /\ Cardinality(db["client"]) = 3
    /\ \A c \in db["client"] : c.nextAppt = NullDate
    /\ ~report.warned

\* C17: the count verifyImport reports for a table is the number of records
\* whose insert was committed in this run; for Appointment it is the number
\* of source records minus the records of the failed batches, lower than the
\* source count as soon as a batch failed.
C17_CountsShowCommitted ==
    (script = "import" /\ report # NoReport) =>
        /\ \A t \in Tables : report.counts[t] = inserted[t]
        /\ report.counts["appointment"] =
               Len(srcData["appointment"])
                   - SumBatchSizes({f \in failedAt : f[1] = "appointment"})
        /\ failed = SumBatchSizes({f \in failedAt : f[1] = "appointment"})
        /\ (\E f \in failedAt : f[1] = "appointment") =>
               report.counts["appointment"] < Len(srcData["appointment"])

\* C17 witness: verification reported an Appointment count lower than the
\* source count after a batch failed on a missing rate.
C17_Witness ==
    /\ script = "import"
    /\ report # NoReport
    /\ failed > 0
    /\ report.counts["appointment"] > 0
    /\ report.counts["appointment"] < Len(srcData["appointment"])
    /\ srcData["rate"] = <<>>

\* the number of records the export of table t obtained
ExportedCount(t) ==
    IF script = "exportCsv"
    THEN Len(csvToJson(SqlcmdCsv(t, xSource[t]), ExportColumns(t)))
    ELSE Len(xSource[t])

\* C12: when no query and no file operation fails, a table whose exported
\* count differs from the expected count only draws a warning: its artifact
\* is written, every table is exported and the extractor exits with code 0;
\* a table is warned about exactly when its count differs.
C12_CountMismatchOnlyWarns ==
    (script \in {"exportCsv", "exportJson"} /\ xFault = NoFault /\ xExit # -1) =>
        /\ xExit = 0
        /\ \A t \in Tables :
               /\ xAttempts[t] = 1
               /\ artifacts[t].kind = "json"
               /\ t \in xWarned <=> ExportedCount(t) # ExpectedRows(t)

\* C13: once the export of a table has met a failing query or a failing file
\* operation, the extraction is in its catch block or over, no later table
\* has been exported, the table was tried once, and the exit code is 1.
C13_FailureAbortsExtraction ==
    \A k \in 1..Len(ExportOrder) :
        (script \in {"exportCsv", "exportJson"}
             /\ xFault.table = ExportOrder[k] /\ xAttempts[ExportOrder[k]] > 0) =>
            /\ xPc[1] \in {"catch", "end"}
            /\ xAttempts[ExportOrder[k]] = 1
            /\ \A j \in (k + 1)..Len(ExportOrder) :
                   xAttempts[ExportOrder[j]] = 0 /\ artifacts[ExportOrder[j]] = NoArtifact
            /\ xPc[1] = "end" => xExit = 1

\* C18: a JSON artifact written for a table whose query and file operations
\* succeeded holds one record per source row, in the order of the IDs.
C18_OneRecordPerRow ==
    \A t \in Tables :
        (script \in {"exportCsv", "exportJson"}
             /\ artifacts[t].kind = "json" /\ FaultAt(t) = "none") =>
            /\ Len(artifacts[t].records) = Len(xSource[t])
            /\ \A k \in 1..Len(xSource[t]) :
                   artifacts[t].records[k][1] = JNum(xSource[t][k].ID)

\* an employee API request is answered
EmployeeApiStep ==
    \/ ApiGet
    \/ \E body \in Bodies : ApiPost(body)
    \/ \E id \in 1..MaxId, body \in Bodies : ApiPut(id, body)
    \/ \E id \in 1..MaxId : ApiDelete(id)

\* C19: an employee API request (GET, POST, PUT, DELETE) sent without the
\* auth_token cookie is answered 401 before the handler reads or writes the
\* employee store, and leaves the store as it was.
C19_Step ==
    (script = "web" /\ ~cookie /\ EmployeeApiStep) =>
        /\ response'.status = 401
        /\ ~response'.access
        /\ employees' = employees
        /\ nextId' = nextId

C19_UnauthenticatedRejected == [][C19_Step]_vars

\* C19 witness: a DELETE for a stored employee, sent without the cookie, was
\* answered 401 and the employee is still stored.
C19_Witness ==
    /\ script = "web"
    /\ response.op = "DELETE"
    /\ ~response.hadCookie
    /\ response.status = 401
    /\ IndexOf(employees, response.id) # 0

\* the credentials the specification names as valid
C20_ValidCredentials == [email |-> JStr(<<"a", "d", "m", "i", "n", "@", "e", "x", "a", "m", "p", "l", "e", ".", "c", "o", "m">>), password |-> JStr(<<"q", "w", "e", "r", "t", "y">>)]

\* a path under /dashboard or /employees-table
C20_Protected(pathname) ==
    \E root \in {<<"/", "d", "a", "s", "h", "b", "o", "a", "r", "d">>, <<"/", "e", "m", "p", "l", "o", "y", "e", "e", "s", "-", "t", "a", "b", "l", "e">>} :
        pathname = root \/ StartsWith(pathname, root \o <<"/">>)

\* C20: the cookie appears only in a login with the valid credentials, and
\* such a login sets it; a logout removes it and nothing but a logout or
\* its expiry does; a page request leaves it alone, is redirected to /login
\* when it is for a protected path and the cookie is absent, passes when the
\* cookie is present, and is redirected from /login to /dashboard when the
\* cookie is present.
C20_Step ==
    script = "web" =>
        /\ (~cookie /\ cookie') => Login(C20_ValidCredentials)
        /\ Login(C20_ValidCredentials) => cookie'
        /\ Logout => ~cookie'
        /\ (cookie /\ ~cookie') => (Logout \/ CookieExpires)
        /\ \A pathname \in Paths :
               PageRequest(pathname) =>
                   /\ cookie' = cookie
                   /\ (C20_Protected(pathname) /\ ~cookie) => response'.location = <<"/", "l", "o", "g", "i", "n">>
                   /\ (C20_Protected(pathname) /\ cookie) => response'.location = PassThrough
                   /\ (pathname = <<"/", "l", "o", "g", "i", "n">> /\ cookie) => response'.location = <<"/", "d", "a", "s", "h", "b", "o", "a", "r", "d">>
                   /\ (pathname = <<"/", "l", "o", "g", "i", "n">> /\ ~cookie) => response'.location = PassThrough

C20_CookieGatesPages == [][C20_Step]_vars

\* C20 witness: after a login the browser holds the cookie and its request
\* for /employees-table passed the middleware.
C20_Witness ==
    /\ script = "web"
    /\ cookie
    /\ response.op = "page"
    /\ response.hadCookie
    /\ response.path = <<"/", "e", "m", "p", "l", "o", "y", "e", "e", "s", "-", "t", "a", "b", "l", "e">>
    /\ response.location = PassThrough

\* <<table, source field, destination column>> of every date the import writes
ImportDateFields ==
    { <<"employee", "Start_Date", "startDate">>,
      <<"timePeriod", "StartDate", "startDate">>, <<"timePeriod", "EndDate", "endDate">>,
      <<"client", "Next_Appt", "nextAppt">>, <<"client", "Created", "created">>,
      <<"client", "Updated", "updated">>,
      <<"rate", "Start_Date", "startDate">>, <<"rate", "End_Date", "endDate">>,
      <<"appointment", "Appt_Date", "apptDate">>, <<"appointment", "Created", "created">>,
      <<"appointment", "Updated", "updated">> }

\* C24: every date column written by a loader of the import gets the same
\* normalization: a source value that is the year-0001 sentinel or earlier
\* than 1900 is stored by no loader as a literal date.
C24_SameNormalization ==
    script = "import" =>
        \A f \in ImportDateFields :
            \A k \in 1..Len(srcData[f[1]]) :
                LET record == srcData[f[1]][k]
                IN  (record[f[2]] # NullDate /\ DateBefore(record[f[2]], <<1900, 1, 1>>)) =>
                        \A r \in db[f[1]] : r.id = record.ID => r[f[3]] = NullDate

\* An Appointment record that lacks Duration (0 is a Duration) or a usable
\* Appt_Date, Created or Updated.
C25_Unusable(record) ==
    \/ record.Duration = NULL
    \/ \E c \in {"Appt_Date", "Created", "Updated"} :
           record[c] = NullDate \/ DateBefore(record[c], <<1900, 1, 1>>)

C25_Step ==
    (script = "import" /\ pc[1] = "load" /\ ImportOrder[pc[2]] = "appointment" /\ idx' # idx) =>
        LET batch == Slice(srcData["appointment"], idx)
        IN  (\E k \in 1..Len(batch) : C25_Unusable(batch[k])) =>
                /\ db' = db
                /\ inserted' = inserted
                /\ failed' = failed + Len(batch)
                /\ Len(errors') = Len(errors) + 1
                /\ SubSeq(errors', 1, Len(errors)) = errors
                /\ errors'[Len(errors')].batchStart = batch[1].ID
                /\ errors'[Len(errors')].batchEnd = batch[Len(batch)].ID

\* C25: an Appointment record without Duration or without a usable Appt_Date,
\* Created or Updated is never inserted: its batch fails as a whole, nothing
\* of the batch is inserted, the failed count grows by the batch size and
\* exactly one error entry naming the batch's first and last ID is recorded.
C25_UnusableAppointmentFailsBatch ==
    /\ [](script = "import" =>
            \A k \in 1..Len(srcData["appointment"]) :
                C25_Unusable(srcData["appointment"][k]) =>
                    srcData["appointment"][k].ID \notin Ids("appointment", db))
    /\ [][C25_Step]_vars

\* C25 witness: the loader has gone through a file whose records 1 and 4 lack
\* a usable Created / Updated; both of their batches were recorded as failed,
\* and record 5, whose Duration is 0, was inserted.
C25_Witness ==
    /\ script = "import"
    /\ srcData["appointment"] = AppointmentRowsBadDates
    /\ "appointment" \in loadsDone
    /\ Len(errors) = 2
    /\ errors[1].batchStart = 1 /\ errors[1].batchEnd = 2
    /\ failed = 4
    /\ \E r \in db["appointment"] : r.id = 5 /\ r.duration = 0

\* C29: the import ends in its success state (the "Import Complete" report
\* followed by a normal exit) only if no batch failed and every record of
\* every table is in the destination.
C29_SuccessOnlyIfAllInserted ==
    (script = "import" /\ pc[1] = "end" /\ exitCode = 0) =>
        /\ failed = 0
        /\ failedAt = {}
        /\ \A t \in Tables : SourceIds(t) \subseteq Ids(t, db)

\* <<table, source field, destination column>> of the nullable numbers
ImportNumberFields ==
    { <<"rate", "Rate", "rate">>,
      <<"appointmentType", "TypeIdForRate", "typeIdForRate">>,
      <<"appointment", "Units", "units">>,
      <<"appointment", "Clinician_Amount", "clinicianAmount">>,
      <<"appointment", "Client_Charge", "clientCharge">>,
      <<"appointment", "Vacation_Hours", "vacationHours">>,
      <<"appointment", "Bonus", "bonus">>,
      <<"appointment", "Correction_Payment", "correctionPayment">>,
      <<"appointment", "Reimbursement", "reimbursement">> }

\* C30: a nullable numeric field whose source value is 0 is stored as 0; the
\* stored value is null only when the source value is null.
C30_ZeroStaysZero ==
    script = "import" =>
        \A f \in ImportNumberFields :
            \A k \in 1..Len(srcData[f[1]]) :
                LET record == srcData[f[1]][k]
                IN  \A r \in db[f[1]] :
                        r.id = record.ID =>
                            /\ record[f[2]] = 0 => r[f[3]] = 0
                            /\ r[f[3]] = NULL => record[f[2]] = NULL

\* a body that lacks one of the fields every version of the routes requires
C21_Missing(body) ==
    ~Truthy(body.firstName) \/ ~Truthy(body.lastName) \/ ~Truthy(body.email)

\* a body that no version of the routes rejects
C21_Complete(body) ==
    /\ ~MissingSalaryFields(body)
    /\ ~MissingActiveFields(body)
    /\ ~InvalidPayType(body)

C21_Rejected(status) ==
    /\ response'.status = status
    /\ employees' = employees

C21_Step ==
    (script = "web" /\ backend = "prisma" /\ cookie) =>
        \A body \in Bodies \ {Malformed} :
            /\ ApiPost(body) =>
                   /\ C21_Missing(body) => C21_Rejected(400)
                   /\ (C21_Complete(body) /\ EmailTaken(employees, body.email, 0)) =>
                          C21_Rejected(409)
            /\ \A id \in 1..MaxId :
                   /\ ApiPut(id, body) =>
                          /\ C21_Missing(body) => C21_Rejected(400)
                          /\ (C21_Complete(body) /\ IndexOf(employees, id) = 0) =>
                                 C21_Rejected(404)
                          /\ (C21_Complete(body) /\ IndexOf(employees, id) # 0
                                /\ EmailTaken(employees, body.email, id)) =>
                                 C21_Rejected(409)
                   /\ (ApiDelete(id) /\ IndexOf(employees, id) = 0) => C21_Rejected(404)

\* C21: an authenticated POST or PUT that lacks a required field is answered
\* 400, one whose email is that of another stored employee is answered 409, a
\* PUT or DELETE for an id that is not stored is answered 404, and each of
\* them leaves the stored employees as they were.
C21_ErrorAnswers == [][C21_Step]_vars

C22_Step ==
    (script = "web" /\ cookie) =>
        \A form \in Forms :
            (AddEmployeeSubmit(form) /\ \A f \in DOMAIN form : form[f] # <<>>) =>
                /\ response'.sent
                /\ response'.status # 400
                /\ ~EmailTaken(employees, JStr(form.email), 0) =>
                       /\ response'.status = 201
                       /\ \E k \in 1..Len(response'.listed) :
                              response'.listed[k].email = JStr(form.email)

\* C22: a submission of the Add Employee form with every field filled in
\* sends a POST that the route does not answer 400, and when the email is not
\* in use the employee is created (201) and is in the list fetched afterwards.
C22_FormSubmissionCreates == [][C22_Step]_vars

C27_Step ==
    (script = "web" /\ backend = "prisma" /\ cookie) =>
        \A body \in Bodies \ {Malformed} :
            /\ (ApiPost(body) /\ response'.status = 201) => body.active[1] = "bool"
            /\ \A id \in 1..MaxId :
                   (ApiPut(id, body) /\ response'.status = 200) => body.active[1] = "bool"

\* C27: whatever authenticated POST and PUT requests were made, every stored
\* employee has a payType out of Hourly, Salary and Pct, and its active flag
\* was given as a boolean by the request that wrote it.
C27_StoredFieldsValid ==
    /\ []((script = "web" /\ backend = "prisma") =>
             \A k \in 1..Len(employees) :
                 /\ employees[k].payType[1] = "str"
                 /\ employees[k].payType[2] \in PayTypes
                 /\ employees[k].active \in {0, 1})
    /\ [][C27_Step]_vars

\* the positions in `answers` of the POSTs answered 201
C26_Created == {i \in 1..Len(answers) : answers[i].op = "POST" /\ answers[i].status = 201}

\* a DELETE of that id was answered 200 after answer i (and before answer j)
C26_DeletedBetween(i, j) ==
    \E d \in (i + 1)..(j - 1) :
        answers[d] = FileAnswer("DELETE", answers[i].id, 200)

\* C26: with the file-backed routes, however POST, PUT and DELETE requests
\* overlap, once no request is in flight every employee a POST answered with
\* 201 is in the file (unless a later DELETE of it was answered 200), and no
\* two POSTs were answered with the same id (unless it was deleted in between).
C26_NoLostCreate ==
    (script = "web" /\ backend = "file" /\ pending = {}) =>
        /\ \A i \in C26_Created :
               \/ IndexOf(employees, answers[i].id) # 0
               \/ C26_DeletedBetween(i, Len(answers) + 1)
        /\ \A i, j \in C26_Created :
               (i < j /\ answers[i].id = answers[j].id) => C26_DeletedBetween(i, j)

EmployeeIds(emps) == {emps[k].id : k \in 1..Len(emps)}

\* the change an accepted PUT for `id` may make to the stored employees
C28_OnlyThatRecord(id) ==
    /\ Len(employees') = Len(employees)
    /\ EmployeeIds(employees') = EmployeeIds(employees)
    /\ \A k \in 1..Len(employees) :
           IF employees[k].id = id
           THEN employees'[k].id = id
           ELSE employees'[k] = employees[k]

C28_Step ==
    script = "web" =>
        \A n \in 1..MaxRequests :
            (FileWrite(n) /\ response'.op = "PUT") => C28_OnlyThatRecord(response'.id)

\* C28: a PUT that is accepted changes only the employee with the id of the
\* request: the number of employees, their ids and every other employee stay
\* as they are, and the employee keeps its id whatever id the body carries.
C28_PutChangesOneRecord == [][C28_Step]_vars

\* the table a seed or test-migration run works on, and its source records
C23_Table == IF script = "seed" THEN SeedContent(employees) ELSE db["appointmentType"]

C23_Source ==
    IF script = "seed"
    THEN [k \in 1..Len(employeesData) |->
              [employeesData[k] EXCEPT !.date = YMD(employeesData[k].date)]]
    ELSE {[id |-> srcData["appointmentType"][k].ID,
           typeIdForRate |-> srcData["appointmentType"][k].TypeIdForRate] :
              k \in 1..Len(srcData["appointmentType"])}

C23_Empty == IF script = "seed" THEN <<>> ELSE {}

\* C23: the seed and test-migration scripts insert only into an empty table.
\* A run that started on an empty table and completed leaves exactly the
\* source records (the 10 seed employees); a run that started on a non-empty
\* table leaves it as it was; so no record is ever stored twice and further
\* runs change nothing.
C23_InsertOnlyIntoEmpty ==
    script \in {"seed", "testMigration"} =>
        /\ (pc[1] = "end" /\ exitCode = 0 /\ ~report.threw /\ report.table = C23_Empty) =>
               C23_Table = C23_Source
        /\ report.table # C23_Empty => C23_Table = report.table
        /\ script = "seed" =>
               /\ Len(C23_Source) = 10
               /\ \A j, k \in 1..Len(employees) :
                      employees[j].email = employees[k].email => j = k
        /\ script = "testMigration" =>
               \A r1, r2 \in db["appointmentType"] : r1.id = r2.id => r1 = r2

\* C23 witness: a second run of the seed script has ended normally; it found
\* the 10 employees of the first run and the table still holds exactly them.
C23_Witness ==
    /\ script = "seed"
    /\ run = 2
    /\ pc[1] = "end" /\ exitCode = 0
    /\ Len(employees) = 10
    /\ report.table = C23_Source
    /\ C23_Table = C23_Source

====
